---- MODULE Spec2Model ----
(***************************************************************************)
(* Model of the variable index (VariableScanner), the debounced file       *)
(* watchers that feed it, and the resolver (VariableResolver) of the CSS   *)
(* variables validator.                                                    *)
(*                                                                         *)
(* The host is single-threaded and event driven: every action below is one *)
(* run-to-completion slice of a handler, from its entry (or from the       *)
(* resumption of an await) up to its next await or its return.             *)
(***************************************************************************)
EXTENDS Integers, Sequences, FiniteSets, TLC

Nulo == "nulo"

\* ---------------------------------------------------------------- bounds
\* actualizarArchivo calls in flight at one time, over all files
MaxActualizaciones == 1
\* escanear calls in flight the model can hold (the code allows one)
MaxEscaneos == 2
\* armed timers of debounce closures that a configuration change replaced
MaxTimeoutsViejos == 1

\* ---------------------------------------------------------------- world
Archivos == {"a.css", "b.css"}

\* The configured include patterns, as the set of files they match.
Patrones == {{"a.css", "b.css"}, {"a.css"}}

\* A value is a sequence of tokens: literal text, or one match of VAR_REGEX.
\* exacta: the match is written exactly `var(<txt>)`, no blanks, no fallback.
Lit(s) == [tipo |-> "lit", txt |-> s, fb |-> "", exacta |-> FALSE]
Var(n) == [tipo |-> "var", txt |-> n, fb |-> "", exacta |-> TRUE]
\* `var(<n>, <fb>)`: a match of VAR_REGEX that is not the text `var(<n>)`.
VarCon(n, fb) == [tipo |-> "var", txt |-> n, fb |-> fb, exacta |-> FALSE]

\* The texts a file can hold, each given by the `--name: value;` matches that
\* parsearSoloDefiniciones finds in it, in document order.
Textos ==
    << << [nombre |-> "--a", valor |-> <<Lit("#111")>>] >>,
       << [nombre |-> "--a", valor |-> <<Lit("#222")>>],
          [nombre |-> "--b", valor |-> <<Var("--a")>>] >> >>

\* 0: the file does not exist
SinArchivo == 0
IdTextos == 1..Len(Textos)

\* The texts each file takes in the model: a.css any of them, b.css the first.
TextosDe(f) == IF f = "a.css" THEN IdTextos ELSE {1}

VARIABLES
    disco,                \* file -> id of its text, SinArchivo when absent
    config,               \* the include patterns now configured
    valido,               \* _cache.valido
    variables,            \* _cache.indice.variables : name -> declaration
    archivosEscaneados,   \* _cache.indice.archivosEscaneados
    variablesPorArchivo,  \* _cache.variablesPorArchivo : file -> declarations
    escaneando,           \* _escaneando
    escaneos,             \* escanear calls suspended at an await
    actualizaciones,      \* file -> actualizarArchivo calls awaiting the read
    timeout,              \* argument of the pending debounce timer, or Nulo
    timeoutsViejos,       \* files with an armed timer of a replaced closure
    cacheResolucion,      \* _cacheResolucion : name -> ResolvedVariable
    pila,                 \* resolverRecursivo call stack (step-wise resolver)
    retorno,              \* value returned to the frame on top of pila
    evento                \* the handler slice that ran last

vars == <<disco, config, valido, variables, archivosEscaneados,
          variablesPorArchivo, escaneando, escaneos, actualizaciones,
          timeout, timeoutsViejos, cacheResolucion, pila, retorno, evento>>

cacheVars == <<valido, variables, archivosEscaneados, variablesPorArchivo>>
resolverPasoVars == <<pila, retorno>>

FnVacia == [x \in {} |-> Nulo]

Quitar(f, k) == [x \in (DOMAIN f) \ {k} |-> f[x]]

\* History of the last slice: the handler, the file (or name) it was about,
\* the notifications it fired, whether its escanear call returned at once
\* (for resolver: whether it was served from the cache) and, for the two
\* handlers that reset the cache, _cache.valido as the slice found it.
Evento(op, archivo, disparos, inmediato) ==
    [op |-> op, archivo |-> archivo, disparos |-> disparos,
     inmediato |-> inmediato,
     validoAntes |-> IF op \in {"config", "git"} THEN valido ELSE FALSE]

\* ------------------------------------------------- text-level parser
\* A document is a sequence of elements. The characters that the regular
\* expressions tell apart are single elements ("-", ":", ";", "{", "}", " ",
\* one-letter words); a longer element is a run of characters that no
\* match starts or ends inside ("root", "color", "!important",
\* "var(", "/*", "*/").
Palabras == {"a", "b", "c", "d", "e", "f", "g", "h", "i", "j", "k", "l", "m",
             "n", "o", "p", "q", "r", "s", "t", "u", "v", "w", "x", "y", "z",
             "B", "C", "D", "E", "F", "G", "P", "R", "X",
             "root", "color", "margin", "font", "size", "border"}
Digitos == {"0", "1", "2", "3", "4", "5", "6", "7", "8", "9"}
\* [a-zA-Z-] and [\w-]
LetrasGuion == Palabras \cup {"-"}
CaracteresNombre == Palabras \cup Digitos \cup {"-", "_"}
Espacios == {" "}
Terminadores == {";", "{", "}"}
Llaves == {"{", "}"}

\* The first position from i on whose element is in S (not in S); one past
\* the end when there is none.
Primero(t, i, S) ==
    LET c == {j \in i..Len(t) : t[j] \in S}
    IN  IF c = {} THEN Len(t) + 1
        ELSE CHOOSE j \in c : \A k \in c : j <= k

PrimeroFuera(t, i, S) ==
    LET c == {j \in i..Len(t) : t[j] \notin S}
    IN  IF c = {} THEN Len(t) + 1
        ELSE CHOOSE j \in c : \A k \in c : j <= k

\* String.prototype.trim
RECURSIVE trim(_)
trim(v) ==
    IF v = << >> THEN v
    ELSE IF Head(v) \in Espacios THEN trim(Tail(v))
    ELSE IF v[Len(v)] \in Espacios THEN trim(SubSeq(v, 1, Len(v) - 1))
    ELSE v

\* extraerValorLimpio: every "!important" removed, one final ";" removed,
\* then trimmed.
extraerValorLimpio(valorCompleto) ==
    LET sinImportant == SelectSeq(valorCompleto, LAMBDA e : e # "!important")
    IN  trim(IF sinImportant # << >> /\ sinImportant[Len(sinImportant)] = ";"
                THEN SubSeq(sinImportant, 1, Len(sinImportant) - 1)
                ELSE sinImportant)

\* One attempt of /(--[\w-]+)\s*:\s*([^;{}]+);/ at position i. The name and
\* the blanks are greedy; the value runs to the first ";", "{" or "}" and
\* the match needs a ";" there. When only blanks stand between ":" and ";"
\* the blanks give one back and the value is that blank.
CoincideDefinicion(t, i) ==
    LET j == PrimeroFuera(t, i + 2, CaracteresNombre)
        k == PrimeroFuera(t, j, Espacios)
        m == PrimeroFuera(t, k + 1, Espacios)
        e == Primero(t, k + 1, Terminadores)
    IN  IF /\ i + 2 <= Len(t)
           /\ t[i] = "-"
           /\ t[i + 1] = "-"
           /\ t[i + 2] \in CaracteresNombre
           /\ k <= Len(t)
           /\ t[k] = ":"
           /\ e <= Len(t)
           /\ t[e] = ";"
           /\ e > k + 1
            THEN [ok |-> TRUE, nombre |-> SubSeq(t, i, j - 1),
                  valor |-> IF m < e THEN SubSeq(t, m, e - 1) ELSE <<" ">>,
                  fin |-> e]
            ELSE [ok |-> FALSE, nombre |-> << >>, valor |-> << >>, fin |-> i]

\* parsearSoloDefiniciones: the exec loop over the raw text of the document
\* (comments included).
RECURSIVE DefinicionesDesde(_, _)
DefinicionesDesde(t, i) ==
    IF i > Len(t) THEN << >>
    ELSE LET c == CoincideDefinicion(t, i)
         IN  IF c.ok
                THEN <<[nombre |-> c.nombre,
                        valor |-> extraerValorLimpio(c.valor)]>>
                        \o DefinicionesDesde(t, c.fin + 1)
                ELSE DefinicionesDesde(t, i + 1)

parsearSoloDefiniciones(t) == DefinicionesDesde(t, 1)

\* eliminarComentarios: every comment becomes blanks of the same length.
RECURSIVE SinComentariosDesde(_, _)
SinComentariosDesde(t, i) ==
    IF i > Len(t) THEN << >>
    ELSE LET c == Primero(t, i + 1, {"*/"})
         IN  IF t[i] = "/*" /\ c <= Len(t)
                THEN [k \in 1..(c - i + 1) |-> " "] \o SinComentariosDesde(t, c + 1)
                ELSE <<t[i]>> \o SinComentariosDesde(t, i + 1)

eliminarComentarios(t) == SinComentariosDesde(t, 1)

\* parsearReglas: the exec loop of RULE_REGEX, /([^{}]+)\{([^{}]*)\}/g.
RECURSIVE ReglasDesde(_, _)
ReglasDesde(t, i) ==
    LET s == PrimeroFuera(t, i, Llaves)
        p == Primero(t, s, Llaves)
        q == Primero(t, p + 1, Llaves)
    IN  IF p > Len(t) THEN << >>
        ELSE IF t[p] = "}" THEN ReglasDesde(t, p + 1)
        ELSE IF q > Len(t) THEN << >>
        ELSE IF t[q] = "}"
            THEN <<[selector |-> trim(SubSeq(t, s, p - 1)),
                    contenido |-> SubSeq(t, p + 1, q - 1)]>>
                    \o ReglasDesde(t, q + 1)
            ELSE ReglasDesde(t, p + 1)

parsearReglas(t) == ReglasDesde(t, 1)

\* parsearDeclaraciones: the exec loop of DECLARATION_REGEX,
\* /([a-zA-Z-]+)\s*:\s*([^;]+);?/g, over the content of a rule.
RECURSIVE DeclaracionesDesde(_, _)
DeclaracionesDesde(c, i) ==
    LET s == Primero(c, i, LetrasGuion)
        j == PrimeroFuera(c, s, LetrasGuion)
        k == PrimeroFuera(c, j, Espacios)
        m == PrimeroFuera(c, k + 1, Espacios)
        e == Primero(c, k + 1, {";"})
    IN  IF s > Len(c) THEN << >>
        ELSE IF k <= Len(c) /\ c[k] = ":" /\ e > k + 1
            THEN <<[propiedad |-> SubSeq(c, s, j - 1),
                    valor |-> extraerValorLimpio(
                                IF m < e THEN SubSeq(c, m, e - 1) ELSE <<" ">>)]>>
                    \o DeclaracionesDesde(c, e + 1)
            ELSE DeclaracionesDesde(c, j)

parsearDeclaraciones(contenido) == DeclaracionesDesde(contenido, 1)

\* extraerVariablesDeValor over text: the exec loop of VAR_REGEX,
\* /var\(\s*(--[\w-]+)\s*(?:,\s*([^)]+))?\s*\)/g; for each match the name
\* and the fallback, trimmed, Nulo when absent or blank.
RECURSIVE VariablesDesde(_, _)
VariablesDesde(v, i) ==
    LET s == Primero(v, i, {"var("})
        a == PrimeroFuera(v, s + 1, Espacios)
        j == PrimeroFuera(v, a + 2, CaracteresNombre)
        k == PrimeroFuera(v, j, Espacios)
        c == Primero(v, k + 1, {")"})
    IN  IF s > Len(v) THEN << >>
        ELSE IF /\ a + 2 <= Len(v)
                /\ v[a] = "-"
                /\ v[a + 1] = "-"
                /\ v[a + 2] \in CaracteresNombre
                /\ k <= Len(v)
                /\ \/ v[k] = ")"
                   \/ v[k] = "," /\ c <= Len(v) /\ c > k + 1
            THEN <<[nombreVariable |-> SubSeq(v, a, j - 1),
                    fallback |-> IF v[k] = ")" \/ trim(SubSeq(v, k + 1, c - 1)) = << >>
                                    THEN Nulo
                                    ELSE trim(SubSeq(v, k + 1, c - 1))]>>
                    \o VariablesDesde(v, (IF v[k] = ")" THEN k ELSE c) + 1)
            ELSE VariablesDesde(v, s + 1)

coincidenciasVarAlReves(valor) ==
    [k \in 1..Len(VariablesDesde(valor, 1)) |->
        VariablesDesde(valor, 1)[Len(VariablesDesde(valor, 1)) + 1 - k]]
coincidenciasVar(valor) == VariablesDesde(valor, 1)

extraerVariablesDeTexto(valor) ==
    [k \in 1..Len(coincidenciasVar(valor)) |->
        coincidenciasVar(valor)[k].nombreVariable]

\* VAR_DEFINITION_REGEX, /^\s*(--[\w-]+)\s*$/, on a trimmed property.
esDefinicionVariable(propiedad) ==
    /\ Len(propiedad) >= 3
    /\ propiedad[1] = "-"
    /\ propiedad[2] = "-"
    /\ \A k \in 1..Len(propiedad) : propiedad[k] \in CaracteresNombre

\* ------------------------------------------------- values and colours
\* A value is a sequence of characters, with "var(" kept as one element.
Minuscula(c) ==
    CASE c = "B" -> "b" [] c = "D" -> "d" [] c = "E" -> "e" [] c = "F" -> "f"
      [] c = "C" -> "c" [] c = "G" -> "g" [] c = "P" -> "p" [] c = "R" -> "r" [] c = "X" -> "x"
      [] OTHER -> c

toLowerCase(v) == [k \in 1..Len(v) |-> Minuscula(v[k])]

\* [0-9a-fA-F], and the value of a digit in base 16
HexDigitos ==
    Digitos \cup {"a", "b", "c", "d", "e", "f", "B", "C", "D", "E", "F"}

ValorDigito(c) ==
    CASE c = "0" -> 0 [] c = "1" -> 1 [] c = "2" -> 2 [] c = "3" -> 3
      [] c = "4" -> 4 [] c = "5" -> 5 [] c = "6" -> 6 [] c = "7" -> 7
      [] c = "8" -> 8 [] c = "9" -> 9 [] c = "a" -> 10 [] c = "b" -> 11
      [] c = "c" -> 12 [] c = "d" -> 13 [] c = "e" -> 14 [] c = "f" -> 15

RECURSIVE parseInt(_, _)
parseInt(ds, base) ==
    IF ds = << >> THEN 0
    ELSE parseInt(SubSeq(ds, 1, Len(ds) - 1), base) * base
            + ValorDigito(ds[Len(ds)])

\* A number as a fraction; den = 0 is NaN and den < 0 is undefined.
Fraccion(num, den) == [num |-> num, den |-> den]
SinAlfa == Fraccion(0, -1)

RECURSIVE Potencia10(_)
Potencia10(n) == IF n = 0 THEN 1 ELSE 10 * Potencia10(n - 1)

\* parseFloat of a run of digits and dots: the digits, one dot, the digits
\* after it; NaN when there is no digit.
parseFloat(w) ==
    LET p == PrimeroFuera(w, 1, Digitos)
        q == IF p <= Len(w) /\ w[p] = "."
                THEN PrimeroFuera(w, p + 1, Digitos) ELSE p
        entero == SubSeq(w, 1, p - 1)
        decimales == SubSeq(w, p + 1, q - 1)
    IN  IF entero = << >> /\ decimales = << >> THEN Fraccion(0, 0)
        ELSE Fraccion(parseInt(entero, 10) * Potencia10(Len(decimales))
                        + parseInt(decimales, 10),
                      Potencia10(Len(decimales)))

\* Math.round of a fraction with a positive denominator
Redondear(num, den) == (2 * num + den) \div (2 * den)

\* The matching of an anchored pattern, left to right: the position reached,
\* the numbers captured and the alpha text captured.
Lector(v) == [v |-> v, ok |-> TRUE, pos |-> 1, nums |-> << >>, alfa |-> << >>]
Fallo(st) == [st EXCEPT !.ok = FALSE]

\* a literal, case-insensitive
LeerTexto(st, w) ==
    IF /\ st.ok
       /\ st.pos + Len(w) - 1 <= Len(st.v)
       /\ toLowerCase(SubSeq(st.v, st.pos, st.pos + Len(w) - 1)) = w
        THEN [st EXCEPT !.pos = @ + Len(w)]
        ELSE Fallo(st)

\* \s* and \s+
Saltar(st) ==
    IF st.ok THEN [st EXCEPT !.pos = PrimeroFuera(st.v, st.pos, Espacios)]
    ELSE st
SaltarUno(st) ==
    IF st.ok /\ PrimeroFuera(st.v, st.pos, Espacios) > st.pos
        THEN Saltar(st) ELSE Fallo(st)

\* (\d{1,3}) before something that is not a digit
LeerNumero(st) ==
    LET j == PrimeroFuera(st.v, st.pos, Digitos)
    IN  IF st.ok /\ j > st.pos /\ j <= st.pos + 3
            THEN [st EXCEPT !.pos = j,
                            !.nums = Append(@, parseInt(SubSeq(st.v, st.pos, j - 1), 10))]
            ELSE Fallo(st)

LeerCaracter(st, c) ==
    IF st.ok /\ st.pos <= Len(st.v) /\ st.v[st.pos] = c
        THEN [st EXCEPT !.pos = @ + 1]
        ELSE Fallo(st)

\* ([\d.]+) and ([\d.]+%?)
LeerAlfa(st, conPorcentaje) ==
    LET j == PrimeroFuera(st.v, st.pos, Digitos \cup {"."})
        k == IF conPorcentaje /\ j <= Len(st.v) /\ st.v[j] = "%"
                THEN j + 1 ELSE j
    IN  IF st.ok /\ j > st.pos
            THEN [st EXCEPT !.pos = k, !.alfa = SubSeq(st.v, st.pos, k - 1)]
            ELSE Fallo(st)

AlFinal(st) == IF st.ok /\ st.pos = Len(st.v) + 1 THEN st ELSE Fallo(st)

Separador(st, conComa) ==
    IF conComa THEN Saltar(LeerCaracter(Saltar(st), ","))
    ELSE SaltarUno(st)

Porcentaje(st, conPorcentaje) ==
    IF conPorcentaje THEN LeerCaracter(st, "%") ELSE st

\* \(\s*N sep N sep N, the last two followed by % in hsl
TresNumeros(st, conComa, conPorcentaje) ==
    Porcentaje(LeerNumero(Separador(
        Porcentaje(LeerNumero(Separador(
            LeerNumero(Saltar(st)), conComa)), conPorcentaje),
        conComa)), conPorcentaje)

Cierre(st) == AlFinal(LeerCaracter(Saltar(st), ")"))

\* \s*,\s*([\d.]+)\s*\)$
AlfaClasico(st) ==
    Cierre(LeerAlfa(Saltar(LeerCaracter(Saltar(st), ",")), FALSE))

\* \s*(?:\/\s*([\d.]+%?))?\s*\)$
AlfaModerno(st) ==
    LET t == Saltar(st)
    IN  IF t.ok /\ t.pos <= Len(t.v) /\ t.v[t.pos] = "/"
            THEN Cierre(LeerAlfa(Saltar(LeerCaracter(t, "/")), TRUE))
            ELSE Cierre(t)

Rgb == <<"r", "g", "b", "(">>
Rgba == <<"r", "g", "b", "a", "(">>
Hsl == <<"h", "s", "l", "(">>
Hsla == <<"h", "s", "l", "a", "(">>

\* COLOR_PATTERNS
PatronHex(v, n) ==
    /\ Len(v) = n + 1
    /\ v[1] = "#"
    /\ \A k \in 2..Len(v) : v[k] \in HexDigitos
PatronRgb(v) == Cierre(TresNumeros(LeerTexto(Lector(v), Rgb), TRUE, FALSE))
PatronRgba(v) == AlfaClasico(TresNumeros(LeerTexto(Lector(v), Rgba), TRUE, FALSE))
PatronRgbModern(v) == AlfaModerno(TresNumeros(LeerTexto(Lector(v), Rgb), FALSE, FALSE))
PatronHsl(v) == Cierre(TresNumeros(LeerTexto(Lector(v), Hsl), TRUE, TRUE))
PatronHsla(v) == AlfaClasico(TresNumeros(LeerTexto(Lector(v), Hsla), TRUE, TRUE))
PatronHslModern(v) == AlfaModerno(TresNumeros(LeerTexto(Lector(v), Hsl), FALSE, TRUE))

\* NAMED_COLORS, some of its 148 entries
NAMED_COLORS ==
    (<<"r", "e", "d">> :> <<"#", "f", "f", "0", "0", "0", "0">>)
    @@ (<<"t", "a", "n">> :> <<"#", "d", "2", "b", "4", "8", "c">>)
    @@ (<<"g", "o", "l", "d">> :> <<"#", "f", "f", "d", "7", "0", "0">>)
    @@ (<<"t", "r", "a", "n", "s", "p", "a", "r", "e", "n", "t">>
            :> <<"t", "r", "a", "n", "s", "p", "a", "r", "e", "n", "t">>)

\* The lower-case keys that every object inherits from Object.prototype,
\* for which `clave in NAMED_COLORS` is true as well.
ClavesHeredadas == {<<"c", "o", "n", "s", "t", "r", "u", "c", "t", "o", "r">>}
ObjetoHeredado == <<"function Object">>

EnNamedColors(v) == v \in (DOMAIN NAMED_COLORS) \cup ClavesHeredadas

esColor(valor) ==
    LET valorLimpio == toLowerCase(trim(valor))
    IN  \/ EnNamedColors(valorLimpio)
        \/ \E n \in {3, 4, 6, 8} : PatronHex(valorLimpio, n)
        \/ PatronRgb(valorLimpio).ok
        \/ PatronRgba(valorLimpio).ok
        \/ PatronRgbModern(valorLimpio).ok
        \/ PatronHsl(valorLimpio).ok
        \/ PatronHsla(valorLimpio).ok
        \/ PatronHslModern(valorLimpio).ok

\* hexARgb: the three pairs of #rrggbb, and 0, 0, 0 for anything else.
hexARgb(hex) ==
    IF PatronHex(hex, 6)
        THEN [r |-> parseInt(SubSeq(hex, 2, 3), 16),
              g |-> parseInt(SubSeq(hex, 4, 5), 16),
              b |-> parseInt(SubSeq(hex, 6, 7), 16)]
        ELSE [r |-> 0, g |-> 0, b |-> 0]

CaracterHex(n) ==
    <<"0", "1", "2", "3", "4", "5", "6", "7", "8", "9", "a", "b", "c", "d",
      "e", "f">>[n + 1]

\* toHex of rgbAHex, on an integer: clamped to 0..255, two digits
toHex(n) ==
    LET c == IF n < 0 THEN 0 ELSE IF n > 255 THEN 255 ELSE n
    IN  <<CaracterHex(c \div 16), CaracterHex(c % 16)>>

\* rgbAHex: the alpha is appended only when it is given and below 1.
rgbAHex(r, g, b, a) ==
    <<"#">> \o toHex(r) \o toHex(g) \o toHex(b)
        \o (IF a.den > 0 /\ a.num < a.den
                THEN toHex(Redondear(a.num * 255, a.den))
                ELSE << >>)

\* hslARgb, in whole numbers: c = cN/10000, x = xN/600000, m = mN/20000.
Abs(n) == IF n < 0 THEN -n ELSE n
hslARgb(h, s, l) ==
    LET cN == (100 - Abs(2 * l - 100)) * s
        xN == cN * (60 - Abs((h % 120) - 60))
        mN == 200 * l - cN
        c == cN * 60
        canal(v) == Redondear((v + mN * 30) * 255, 600000)
        k == h \div 60
    IN  [r |-> canal(CASE k \in {0, 5} -> c [] k \in {1, 4} -> xN [] OTHER -> 0),
         g |-> canal(CASE k \in {1, 2} -> c [] k \in {0, 3} -> xN [] OTHER -> 0),
         b |-> canal(CASE k \in {3, 4} -> c [] k \in {2, 5} -> xN [] OTHER -> 0)]

ColorInfo(formato, rgb, a, hex) ==
    [formato |-> formato, r |-> rgb.r, g |-> rgb.g, b |-> rgb.b, a |-> a,
     hex |-> hex]
ColorNulo ==
    ColorInfo("nulo", [r |-> 0, g |-> 0, b |-> 0], SinAlfa, << >>)
Canales(st) == [r |-> st.nums[1], g |-> st.nums[2], b |-> st.nums[3]]

\* The alpha of the modern forms: 1 without the group, the number of the
\* group, divided by 100 when the group ends with %.
AlfaDe(st) ==
    IF st.alfa = << >> THEN Fraccion(1, 1)
    ELSE IF st.alfa[Len(st.alfa)] = "%"
        THEN Fraccion(parseFloat(st.alfa).num, parseFloat(st.alfa).den * 100)
        ELSE parseFloat(st.alfa)

\* parsearColor: the named colours, the hex forms on the trimmed value in
\* lower case; the rgb and hsl forms on the value as given.
parsearColor(valor) ==
    LET valorLimpio == toLowerCase(trim(valor))
        doble(k) == 17 * ValorDigito(valorLimpio[k])
        corto == [r |-> doble(2), g |-> doble(3), b |-> doble(4)]
        hsl(st) == hslARgb(st.nums[1], st.nums[2], st.nums[3])
    IN  IF valorLimpio \in ClavesHeredadas
            THEN ColorInfo("named", hexARgb(ObjetoHeredado), Fraccion(1, 1),
                           ObjetoHeredado)
        ELSE IF valorLimpio \in DOMAIN NAMED_COLORS
            THEN IF NAMED_COLORS[valorLimpio] = valorLimpio
                    THEN ColorInfo("named", [r |-> 0, g |-> 0, b |-> 0],
                                   Fraccion(0, 1),
                                   <<"#", "0", "0", "0", "0", "0", "0", "0", "0">>)
                    ELSE ColorInfo("named", hexARgb(NAMED_COLORS[valorLimpio]),
                                   Fraccion(1, 1), NAMED_COLORS[valorLimpio])
        ELSE IF PatronHex(valorLimpio, 3)
            THEN ColorInfo("hex", corto, Fraccion(1, 1),
                           rgbAHex(corto.r, corto.g, corto.b, SinAlfa))
        ELSE IF PatronHex(valorLimpio, 4)
            THEN ColorInfo("hex", corto, Fraccion(doble(5), 255),
                           rgbAHex(corto.r, corto.g, corto.b,
                                   Fraccion(doble(5), 255)))
        ELSE IF PatronHex(valorLimpio, 6)
            THEN ColorInfo("hex", hexARgb(valorLimpio), Fraccion(1, 1),
                           valorLimpio)
        ELSE IF PatronHex(valorLimpio, 8)
            THEN ColorInfo("hex", hexARgb(SubSeq(valorLimpio, 1, 7)),
                           Fraccion(parseInt(SubSeq(valorLimpio, 8, 9), 16), 255),
                           valorLimpio)
        ELSE IF PatronRgb(valor).ok
            THEN LET c == Canales(PatronRgb(valor))
                 IN  ColorInfo("rgb", c, Fraccion(1, 1),
                               rgbAHex(c.r, c.g, c.b, SinAlfa))
        ELSE IF PatronRgba(valor).ok
            THEN LET c == Canales(PatronRgba(valor))
                     a == parseFloat(PatronRgba(valor).alfa)
                 IN  ColorInfo("rgba", c, a, rgbAHex(c.r, c.g, c.b, a))
        ELSE IF PatronRgbModern(valor).ok
            THEN LET c == Canales(PatronRgbModern(valor))
                     a == AlfaDe(PatronRgbModern(valor))
                 IN  ColorInfo("rgb", c, a, rgbAHex(c.r, c.g, c.b, a))
        ELSE IF PatronHsl(valor).ok
            THEN LET c == hsl(PatronHsl(valor))
                 IN  ColorInfo("hsl", c, Fraccion(1, 1),
                               rgbAHex(c.r, c.g, c.b, SinAlfa))
        ELSE IF PatronHsla(valor).ok
            THEN LET c == hsl(PatronHsla(valor))
                     a == parseFloat(PatronHsla(valor).alfa)
                 IN  ColorInfo("hsla", c, a, rgbAHex(c.r, c.g, c.b, a))
        ELSE IF PatronHslModern(valor).ok
            THEN LET c == hsl(PatronHslModern(valor))
                     a == AlfaDe(PatronHslModern(valor))
                 IN  ColorInfo("hsl", c, a, rgbAHex(c.r, c.g, c.b, a))
        ELSE ColorNulo

\* HARDCODED_PATTERNS
Unidades ==
    { <<"p", "x">>, <<"e", "m">>, <<"r", "e", "m">>, <<"%">>, <<"v", "h">>,
      <<"v", "w">>, <<"v", "m", "i", "n">>, <<"v", "m", "a", "x">>,
      <<"c", "h">>, <<"e", "x">>, <<"c", "m">>, <<"m", "m">>, <<"i", "n">>,
      <<"p", "t">>, <<"p", "c">>, <<"d", "e", "g">>, <<"r", "a", "d">>,
      <<"t", "u", "r", "n">>, <<"s">>, <<"m", "s">> }

\* /^rgba?\s*\(/i and /^hsla?\s*\(/i
EmpiezaFuncion(v, nombre) ==
    \E w \in {nombre, Append(nombre, "a")} :
        LeerCaracter(Saltar(LeerTexto(Lector(v), w)), "(").ok

\* /^-?\d+(\.\d+)?(px|em|...|ms)$/i
PatronNumerico(v) ==
    LET i == IF v # << >> /\ v[1] = "-" THEN 2 ELSE 1
        p == PrimeroFuera(v, i, Digitos)
        q == IF p <= Len(v) /\ v[p] = "."
                THEN PrimeroFuera(v, p + 1, Digitos) ELSE p
    IN  /\ p > i
        /\ \/ toLowerCase(SubSeq(v, p, Len(v))) \in Unidades
           \/ q > p + 1 /\ toLowerCase(SubSeq(v, q, Len(v))) \in Unidades

esValorHardcodeado(valor) ==
    LET valorLimpio == trim(valor)
    IN  /\ \A k \in 1..Len(valorLimpio) : valorLimpio[k] # "var("
        /\ \/ \E n \in {3, 4, 6, 8} : PatronHex(valorLimpio, n)
           \/ EmpiezaFuncion(valorLimpio, <<"r", "g", "b">>)
           \/ EmpiezaFuncion(valorLimpio, <<"h", "s", "l">>)
           \/ PatronNumerico(valorLimpio)
           \/ esColor(valorLimpio)

RECURSIVE Aplanar(_)
Aplanar(ss) == IF ss = << >> THEN << >> ELSE Head(ss) \o Aplanar(Tail(ss))

\* DEFAULT_CONFIG.deteccionHardcoded: the properties checked and the values
\* allowed.
propiedades ==
    (<<"font", "-", "size">> :> TRUE)
    @@ (<<"color">> :> TRUE)
    @@ (<<"background", "-", "color">> :> TRUE)
    @@ (<<"background">> :> TRUE)
    @@ (<<"border", "-", "color">> :> TRUE)
    @@ (<<"margin">> :> FALSE)
    @@ (<<"padding">> :> FALSE)
    @@ (<<"gap">> :> FALSE)
    @@ (<<"border", "-", "radius">> :> FALSE)

valoresPermitidos ==
    { <<"0">>, <<"a", "u", "t", "o">>,
      <<"i", "n", "h", "e", "r", "i", "t">>,
      <<"i", "n", "i", "t", "i", "a", "l">>,
      <<"u", "n", "s", "e", "t">>, <<"n", "o", "n", "e">>,
      <<"1", "0", "0", "%">>, <<"5", "0", "%">>,
      <<"t", "r", "a", "n", "s", "p", "a", "r", "e", "n", "t">>,
      <<"c", "u", "r", "r", "e", "n", "t", "C", "o", "l", "o", "r">> }

\* deberiVerificarPropiedad: the entry of the exact name, else the entry of
\* what precedes the first hyphen, else false.
deberiVerificarPropiedad(propiedad) ==
    LET propiedadBase == SubSeq(propiedad, 1, Primero(propiedad, 1, {"-"}) - 1)
    IN  IF propiedad \in DOMAIN propiedades THEN propiedades[propiedad]
        ELSE IF propiedadBase \in DOMAIN propiedades
            THEN propiedades[propiedadBase]
            ELSE FALSE

esValorPermitido(valor) ==
    \E v \in valoresPermitidos : toLowerCase(v) = toLowerCase(trim(valor))

\* The hardcoded fallbacks of a declaration, one per use, at the range of
\* the use; the allow-list is not consulted.
FallbacksHardcoded(d) ==
    LET usos == SelectSeq(coincidenciasVar(d.valor),
                          LAMBDA u : /\ u.fallback # Nulo
                                     /\ esValorHardcodeado(u.fallback))
    IN  [k \in 1..Len(usos) |->
            [propiedad |-> d.propiedad, valor |-> usos[k].fallback,
             rango |-> "uso"]]

\* detectarHardcodeados: the declarations that are not variable
\* definitions, of a checked property, with a value that is not allowed and
\* is hardcoded, at the range of the value.
detectarHardcodeados(decls) ==
    LET hard == SelectSeq(decls,
                    LAMBDA d : /\ ~esDefinicionVariable(d.propiedad)
                               /\ deberiVerificarPropiedad(d.propiedad)
                               /\ ~esValorPermitido(d.valor)
                               /\ esValorHardcodeado(d.valor))
    IN  [k \in 1..Len(hard) |->
            [propiedad |-> hard[k].propiedad, valor |-> hard[k].valor,
             rango |-> "valor"]]

\* CssParser.parsear, as far as the diagnostics use it: the names defined in
\* the document, the names used in it and the hardcoded values, those of
\* the fallbacks first.
parsearDocumento(t) ==
    LET reglas == parsearReglas(eliminarComentarios(t))
        decls == Aplanar([r \in 1..Len(reglas) |->
                            parsearDeclaraciones(reglas[r].contenido)])
        defs == SelectSeq(decls, LAMBDA d : esDefinicionVariable(d.propiedad))
    IN  [variablesDefinidas |-> [k \in 1..Len(defs) |-> defs[k].propiedad],
         usosVariables |-> Aplanar([k \in 1..Len(decls) |->
                                extraerVariablesDeTexto(decls[k].valor)]),
         valoresHardcoded |->
            Aplanar([k \in 1..Len(decls) |-> FallbacksHardcoded(decls[k])])
            \o detectarHardcodeados(decls)]

\* The documents of the text-level specification: the text, and the
\* declarations of the form `--name: value;` that it holds, as written.
Nc == <<"-", "-", "c">>
Ns == <<"-", "-", "s">>
Nc1 == <<"-", "-", "c", "1">>

Nbc == <<"-", "-", "b", "_", "color">>
H111 == <<"#", "1", "1", "1">>
Hfff == <<"#", "f", "f", "f">>
VarC == <<"var(", "-", "-", "c", ")">>

\* declara: the declarations `--name: value;` of the text; declaraciones:
\* all the declarations `property: value` that the text holds, as written.
Documentos ==
    << [texto |-> <<":", "root", "{", "-", "-", "c", ":">> \o H111 \o <<"}">>,
        declara |-> << >>,
        declaraciones |-> <<[propiedad |-> Nc, valor |-> H111]>>],
       [texto |-> <<".", "x", "{", "color", ":">> \o VarC \o <<"}">>,
        declara |-> << >>,
        declaraciones |-> <<[propiedad |-> <<"color">>, valor |-> VarC]>>],
       [texto |-> <<":", "root", "{", "-", "-", "c", ":">> \o H111 \o <<";", "}">>,
        declara |-> <<[nombre |-> Nc, valor |-> H111]>>,
        declaraciones |-> <<[propiedad |-> Nc, valor |-> H111]>>],
       [texto |-> <<":", "root", "{", "-", "-", "c", ":", " ">> \o H111
                    \o <<" ", "!important", ";", "}">>,
        declara |-> <<[nombre |-> Nc, valor |-> H111]>>,
        declaraciones |-> <<[propiedad |-> Nc, valor |-> H111]>>],
       [texto |-> <<":", "root", "{", "-", "-", "s", ":", "'", "a", ";", "b",
                    "'", ";", "}">>,
        declara |-> <<[nombre |-> Ns, valor |-> <<"'", "a", ";", "b", "'">>]>>,
        declaraciones |-> <<[propiedad |-> Ns,
                             valor |-> <<"'", "a", ";", "b", "'">>]>>],
       [texto |-> <<".", "x", "{", "-", "-", "s", " ", ":", " ", ";", "color",
                    ":", "var(", " ", "-", "-", "s", ",">> \o H111
                    \o <<")", ";", "}">>,
        declara |-> <<[nombre |-> Ns, valor |-> << >>]>>,
        declaraciones |-> <<[propiedad |-> Ns, valor |-> << >>],
                            [propiedad |-> <<"color">>,
                             valor |-> <<"var(", " ", "-", "-", "s", ",">>
                                        \o H111 \o <<")">>]>>],
       [texto |-> <<".", "x", "{", "color", ":">> \o VarC \o <<";", "a", ":">>
                    \o VarC \o <<" ", "var(", "-", "-", "s", ")", "}">>,
        declara |-> << >>,
        declaraciones |-> <<[propiedad |-> <<"color">>, valor |-> VarC],
                            [propiedad |-> <<"a">>,
                             valor |-> VarC \o <<" ", "var(", "-", "-", "s", ")">>]>>],
       [texto |-> <<".", "x", "{", "-", "-", "c", "1", ":">> \o H111
                    \o <<";", "color", ":", "var(", "-", "-", "c", "1", ")", "}">>,
        declara |-> <<[nombre |-> Nc1, valor |-> H111]>>,
        declaraciones |-> <<[propiedad |-> Nc1, valor |-> H111],
                            [propiedad |-> <<"color">>,
                             valor |-> <<"var(", "-", "-", "c", "1", ")">>]>>],
       \* .x{color:var(--c,100%);color:var(--c, #fff )}
       [texto |-> <<".", "x", "{", "color", ":", "var(", "-", "-", "c", ",",
                    "1", "0", "0", "%", ")", ";", "color", ":", "var(", "-",
                    "-", "c", ",", " ">> \o Hfff \o <<" ", ")", "}">>,
        declara |-> << >>,
        declaraciones |->
            <<[propiedad |-> <<"color">>,
               valor |-> <<"var(", "-", "-", "c", ",", "1", "0", "0", "%", ")">>],
              [propiedad |-> <<"color">>,
               valor |-> <<"var(", "-", "-", "c", ",", " ">> \o Hfff
                            \o <<" ", ")">>]>>],
       \* .x{--b_color:#fff;}
       [texto |-> <<".", "x", "{">> \o Nbc \o <<":">> \o Hfff \o <<";", "}">>,
        declara |-> <<[nombre |-> Nbc, valor |-> Hfff]>>,
        declaraciones |-> <<[propiedad |-> Nbc, valor |-> Hfff]>>],
       \* .x{margin:5px;font-size:16px;color:red;border-color:transparent;}
       [texto |-> <<".", "x", "{", "margin", ":", "5", "p", "x", ";", "font",
                    "-", "size", ":", "1", "6", "p", "x", ";", "color", ":",
                    "r", "e", "d", ";", "border", "-", "color", ":", "t", "r",
                    "a", "n", "s", "p", "a", "r", "e", "n", "t", ";", "}">>,
        declara |-> << >>,
        declaraciones |->
            <<[propiedad |-> <<"margin">>, valor |-> <<"5", "p", "x">>],
              [propiedad |-> <<"font", "-", "size">>,
               valor |-> <<"1", "6", "p", "x">>],
              [propiedad |-> <<"color">>, valor |-> <<"r", "e", "d">>],
              [propiedad |-> <<"border", "-", "color">>,
               valor |-> <<"t", "r", "a", "n", "s", "p", "a", "r", "e", "n", "t">>]>>],
       \* .x{color-x: #FFF !important;margin-x:1px;border-x:2px;font-size:1.5}
       [texto |-> <<".", "x", "{", "color", "-", "x", ":", " ", "#", "F", "F",
                    "F", " ", "!important", ";", "margin", "-", "x", ":", "1",
                    "p", "x", ";", "border", "-", "x", ":", "2", "p", "x", ";",
                    "font", "-", "size", ":", "1", ".", "5", "}">>,
        declara |-> << >>,
        declaraciones |->
            <<[propiedad |-> <<"color", "-", "x">>, valor |-> <<"#", "F", "F", "F">>],
              [propiedad |-> <<"margin", "-", "x">>, valor |-> <<"1", "p", "x">>],
              [propiedad |-> <<"border", "-", "x">>, valor |-> <<"2", "p", "x">>],
              [propiedad |-> <<"font", "-", "size">>,
               valor |-> <<"1", ".", "5">>]>>] >>

\* ---------------------------------------------------------------- parser
\* parsearDefiniciones: the declarations of a document, owned by its file.
\* Ids above IdTextos name the documents kept as raw text.
IdDocumentos == {Len(Textos) + d : d \in 1..Len(Documentos)}
DocumentoDe(texto) == Documentos[texto - Len(Textos)].texto

parsearDefiniciones(f, texto) ==
    LET decls == IF texto \in IdTextos
                    THEN Textos[texto]
                    ELSE parsearSoloDefiniciones(DocumentoDe(texto))
    IN  [i \in 1..Len(decls) |->
            [nombre  |-> decls[i].nombre,
             valor   |-> decls[i].valor,
             archivo |-> f]]

\* ---------------------------------------------------------------- scanner
\* procesarArchivo, the loop over the parsed declarations: a declaration is
\* set only when its name is not in the map.
RECURSIVE AgregarAlIndice(_, _)
AgregarAlIndiceSobrescribe(indice, decls) ==
    IF decls = << >> THEN indice
    ELSE AgregarAlIndice(
            [n \in (DOMAIN indice) \cup {Head(decls).nombre} |->
                IF n = Head(decls).nombre THEN Head(decls) ELSE indice[n]],
            Tail(decls))
AgregarAlIndice(indice, decls) ==
    IF decls = << >> THEN indice
    ELSE AgregarAlIndice(
            IF Head(decls).nombre \in DOMAIN indice
                THEN indice
                ELSE indice @@ (Head(decls).nombre :> Head(decls)),
            Tail(decls))

\* The removal loop shared by actualizarArchivo and eliminarArchivo: of the
\* declarations recorded for the file, delete those the map still assigns
\* to this file.
RECURSIVE QuitarDelIndice(_, _, _)
QuitarDelIndiceSinDueno(indice, decls, f) ==
    IF decls = << >> THEN indice
    ELSE QuitarDelIndice(Quitar(indice, Head(decls).nombre), Tail(decls), f)
QuitarDelIndice(indice, decls, f) ==
    IF decls = << >> THEN indice
    ELSE QuitarDelIndice(
            IF /\ Head(decls).nombre \in DOMAIN indice
               /\ indice[Head(decls).nombre].archivo = f
                THEN Quitar(indice, Head(decls).nombre)
                ELSE indice,
            Tail(decls), f)

\* variablesPorArchivo.get(f) || []
Anteriores(f) ==
    IF f \in DOMAIN variablesPorArchivo THEN variablesPorArchivo[f] ELSE << >>

\* One match of VAR_REGEX per "var" token, in order.
extraerVariablesDeValorAlReves(valor) ==
    LET m == SelectSeq(valor, LAMBDA t : t.tipo = "var")
    IN  [i \in 1..Len(m) |-> m[Len(m) + 1 - i]]
extraerVariablesDeValor(valor) == SelectSeq(valor, LAMBDA t : t.tipo = "var")

\* String.prototype.replace with a string pattern: the first occurrence of
\* the exact text `var(<n>)` is replaced, the rest is copied.
RECURSIVE Reemplazar(_, _, _)
Reemplazar(valor, n, por) ==
    IF valor = << >> THEN << >>
    ELSE IF Head(valor).tipo = "var" /\ Head(valor).exacta /\ Head(valor).txt = n
        THEN por \o Tail(valor)
        ELSE <<Head(valor)>> \o Reemplazar(Tail(valor), n, por)

MAX_RESOLUCION_PROFUNDIDAD == 10

NoEncontrada(cadena) ==
    [encontrada |-> FALSE, valor |-> << >>, valorResuelto |-> << >>,
     cadenaResolucion |-> cadena]

EncontradaSiResuelta(v, resuelto, cadena) ==
    [encontrada |-> extraerVariablesDeValor(resuelto) = << >>,
     valor |-> v.valor, valorResuelto |-> resuelto,
     cadenaResolucion |-> cadena]
Encontrada(v, resuelto, cadena) ==
    [encontrada |-> TRUE, valor |-> v.valor, valorResuelto |-> resuelto,
     cadenaResolucion |-> cadena]

\* valorResuelto || valor
ValorFinal(r) == IF r.valorResuelto = << >> THEN r.valor ELSE r.valorResuelto

\* The tail of resolverRecursivo, once the nested call has returned.
CombinarEstricto(v, primeraVar, anidado) ==
    IF anidado.encontrada
        THEN Encontrada(v, Reemplazar(v.valor, primeraVar.txt, ValorFinal(anidado)),
                        anidado.cadenaResolucion)
        ELSE NoEncontrada(anidado.cadenaResolucion)
Combinar(v, primeraVar, anidado) ==
    IF anidado.encontrada
        THEN Encontrada(v, Reemplazar(v.valor, primeraVar.txt, ValorFinal(anidado)),
                        anidado.cadenaResolucion)
        ELSE Encontrada(v, v.valor, anidado.cadenaResolucion)

EnCadena(cadena, n) == \E i \in 1..Len(cadena) : cadena[i] = n

\* The first check of resolverRecursivo.
LimiteAlcanzadoTarde(profundidad) == profundidad > MAX_RESOLUCION_PROFUNDIDAD
LimiteAlcanzado(profundidad) == profundidad >= MAX_RESOLUCION_PROFUNDIDAD

RECURSIVE resolverRecursivo(_, _, _)
resolverRecursivo(nombreVariable, cadena, profundidad) ==
    IF LimiteAlcanzado(profundidad) THEN NoEncontrada(cadena)
    ELSE IF EnCadena(cadena, nombreVariable) THEN NoEncontrada(cadena)
    ELSE IF nombreVariable \notin DOMAIN variables
        THEN NoEncontrada(Append(cadena, nombreVariable))
    ELSE LET v == variables[nombreVariable]
             variablesEnValor == extraerVariablesDeValor(v.valor)
         IN  IF variablesEnValor = << >>
                THEN Encontrada(v, v.valor, Append(cadena, nombreVariable))
                ELSE Combinar(v, variablesEnValor[1],
                        resolverRecursivo(variablesEnValor[1].txt,
                                          Append(cadena, nombreVariable),
                                          profundidad + 1))

\* ---------------------------------------------------------------- events
\* _onVariablesChange.fire(): the resolver's listener clears its whole cache.
onVariablesChangeSoloUna ==
    cacheResolucion' =
        IF DOMAIN cacheResolucion = {} THEN cacheResolucion
        ELSE Quitar(cacheResolucion, CHOOSE n \in DOMAIN cacheResolucion : TRUE)
onVariablesChange == cacheResolucion' = FnVacia

\* escanear up to its first await: the two early returns, else the flag is
\* set, the patterns are read and the file search is started.
IniciaEscaneoSinCache(forzar, validoAhora) == ~escaneando
IniciaEscaneo(forzar, validoAhora) ==
    /\ ~escaneando
    /\ ~(validoAhora /\ ~forzar)

\* The locals of a suspended escanear call. invalidado is history: a
\* configuration change or invalidarCache has set valido to false since the
\* call started. atascadas: the pending reads that will never complete.
NuevoEscaneo(patrones) ==
    [fase |-> "buscando", patrones |-> patrones, archivos |-> {},
     pendientes |-> {}, invalidado |-> FALSE, atascadas |-> {}]

Marcar(escs) == [i \in 1..Len(escs) |-> [escs[i] EXCEPT !.invalidado = TRUE]]

escanearSinGuarda(forzar, validoAhora, patronesAhora) ==
    IF validoAhora /\ ~forzar
        THEN UNCHANGED <<escaneando, escaneos>>
        ELSE /\ Len(escaneos) < MaxEscaneos
             /\ escaneando' = TRUE
             /\ escaneos' = Append(escaneos, NuevoEscaneo(patronesAhora))
escanear(forzar, validoAhora, patronesAhora) ==
    IF IniciaEscaneo(forzar, validoAhora)
        THEN /\ Len(escaneos) < MaxEscaneos
             /\ escaneando' = TRUE
             /\ escaneos' = Append(escaneos, NuevoEscaneo(patronesAhora))
        ELSE UNCHANGED <<escaneando, escaneos>>

SinEscaneo(i) == [j \in 1..(Len(escaneos) - 1) |->
                    IF j < i THEN escaneos[j] ELSE escaneos[j + 1]]

\* procesarArchivo after its await: the map and the reverse index it leaves.
\* A failed read is caught and changes nothing.
procesarArchivoFalloPropaga(f, ok) ==
    IF ok
        THEN [indice |-> AgregarAlIndice(variables,
                            parsearDefiniciones(f, disco[f])),
              porArchivo |-> [g \in (DOMAIN variablesPorArchivo) \cup {f} |->
                                IF g = f THEN parsearDefiniciones(f, disco[f])
                                ELSE variablesPorArchivo[g]]]
        ELSE [indice |-> FnVacia, porArchivo |-> variablesPorArchivo]
procesarArchivo(f, ok) ==
    IF ok
        THEN [indice |-> AgregarAlIndice(variables,
                            parsearDefiniciones(f, disco[f])),
              porArchivo |-> [g \in (DOMAIN variablesPorArchivo) \cup {f} |->
                                IF g = f THEN parsearDefiniciones(f, disco[f])
                                ELSE variablesPorArchivo[g]]]
        ELSE [indice |-> variables, porArchivo |-> variablesPorArchivo]

\* A read can fail for any file and must fail for a missing one.
LecturaPosible(f, ok) == ok => disco[f] # SinArchivo

\* escanear after Promise.all: metadata, valido, the notification, finally.
\* f: the file whose read resolved Promise.all, Nulo when there was no file.
escanearFinSinValidar(i, archivos, f) ==
    /\ archivosEscaneados' = archivos
    /\ UNCHANGED valido
    /\ onVariablesChange
    /\ escaneando' = FALSE
    /\ escaneos' = SinEscaneo(i)
    /\ evento' = Evento("escaneoCompleto", f, 1, FALSE)
escanearFin(i, archivos, f) ==
    /\ archivosEscaneados' = archivos
    /\ valido' = TRUE
    /\ onVariablesChange
    /\ escaneando' = FALSE
    /\ escaneos' = SinEscaneo(i)
    /\ evento' = Evento("escaneoCompleto", f, 1, FALSE)

RECURSIVE Suma(_, _)
Suma(f, S) ==
    IF S = {} THEN 0
    ELSE LET x == CHOOSE y \in S : TRUE IN f[x] + Suma(f, S \ {x})

\* actualizarArchivo up to its await: the removal loop, then the read of
\* procesarArchivo is started.
actualizarArchivo(f) ==
    /\ Suma(actualizaciones, Archivos) < MaxActualizaciones
    /\ variables' = QuitarDelIndice(variables, Anteriores(f), f)
    /\ actualizaciones' = [actualizaciones EXCEPT ![f] = @ + 1]

\* eliminarArchivo: nothing at all for a file without a reverse-index record.
eliminarArchivoSinAviso(f) ==
    IF f \in DOMAIN variablesPorArchivo
        THEN /\ variables' = QuitarDelIndice(variables,
                                variablesPorArchivo[f], f)
             /\ variablesPorArchivo' = Quitar(variablesPorArchivo, f)
             /\ archivosEscaneados' = archivosEscaneados \ {f}
             /\ UNCHANGED cacheResolucion
             /\ evento' = Evento("eliminar", f, 0, FALSE)
        ELSE /\ UNCHANGED <<variables, variablesPorArchivo,
                            archivosEscaneados, cacheResolucion>>
             /\ evento' = Evento("eliminar", f, 0, FALSE)
eliminarArchivo(f) ==
    IF f \in DOMAIN variablesPorArchivo
        THEN /\ variables' = QuitarDelIndice(variables,
                                variablesPorArchivo[f], f)
             /\ variablesPorArchivo' = Quitar(variablesPorArchivo, f)
             /\ archivosEscaneados' = archivosEscaneados \ {f}
             /\ onVariablesChange
             /\ evento' = Evento("eliminar", f, 1, FALSE)
        ELSE /\ UNCHANGED <<variables, variablesPorArchivo,
                            archivosEscaneados, cacheResolucion>>
             /\ evento' = Evento("eliminar", f, 0, FALSE)

\* ---------------------------------------------------------------- actions
\* A call of escanear(forzar): the diagnostic pipeline (forzar = FALSE), the
\* refresh command and the initial scan (forzar = TRUE).
LlamarEscanear(forzar) ==
    /\ escanear(forzar, valido, config)
    /\ evento' = Evento("escanear", Nulo, 0, ~IniciaEscaneo(forzar, valido))
    /\ UNCHANGED <<disco, config, cacheVars, actualizaciones, timeout,
                   timeoutsViejos, cacheResolucion, resolverPasoVars>>

\* buscarArchivos resolves: the maps are cleared and one procesarArchivo per
\* file is started. With no file at all Promise.all resolves at once.
BusquedaCompleta(i) ==
    /\ i \in 1..Len(escaneos)
    /\ escaneos[i].fase = "buscando"
    /\ LET archivos == {f \in escaneos[i].patrones : disco[f] # SinArchivo}
       IN  /\ variables' = FnVacia
           /\ variablesPorArchivo' = FnVacia
           /\ IF archivos = {}
                THEN escanearFin(i, archivos, Nulo)
                ELSE /\ archivosEscaneados' = {}
                     /\ escaneos' = [escaneos EXCEPT ![i] =
                            [@ EXCEPT !.fase = "procesando",
                                      !.archivos = archivos,
                                      !.pendientes = archivos]]
                     /\ evento' = Evento("busquedaCompleta", Nulo, 0, FALSE)
                     /\ UNCHANGED <<valido, escaneando, cacheResolucion>>
    /\ UNCHANGED <<disco, config, actualizaciones, timeout, timeoutsViejos,
                   resolverPasoVars>>

\* The read of one procesarArchivo of a full scan completes or fails. The
\* last one resolves Promise.all and the scan runs to its end.
LecturaEscaneo(i, f, ok) ==
    /\ i \in 1..Len(escaneos)
    /\ escaneos[i].fase = "procesando"
    /\ f \in escaneos[i].pendientes
    /\ LecturaPosible(f, ok)
    /\ variables' = procesarArchivo(f, ok).indice
    /\ variablesPorArchivo' = procesarArchivo(f, ok).porArchivo
    /\ IF escaneos[i].pendientes = {f}
        THEN escanearFin(i, escaneos[i].archivos, f)
        ELSE /\ escaneos' = [escaneos EXCEPT ![i].pendientes = @ \ {f}]
             /\ evento' = Evento("lecturaEscaneo", f, 0, FALSE)
             /\ UNCHANGED <<valido, archivosEscaneados, escaneando,
                            cacheResolucion>>
    /\ UNCHANGED <<disco, config, actualizaciones, timeout, timeoutsViejos,
                   resolverPasoVars>>

\* The read of an actualizarArchivo completes or fails; the notification is
\* fired either way.
LecturaActualizacionSoloSiLee(f, ok) ==
    /\ actualizaciones[f] > 0
    /\ LecturaPosible(f, ok)
    /\ variables' = procesarArchivo(f, ok).indice
    /\ variablesPorArchivo' = procesarArchivo(f, ok).porArchivo
    /\ actualizaciones' = [actualizaciones EXCEPT ![f] = @ - 1]
    /\ IF ok THEN onVariablesChange ELSE UNCHANGED cacheResolucion
    /\ evento' = Evento("actualizacionCompleta", f, IF ok THEN 1 ELSE 0, FALSE)
    /\ UNCHANGED <<disco, config, valido, archivosEscaneados, escaneando,
                   escaneos, timeout, timeoutsViejos, resolverPasoVars>>
LecturaActualizacion(f, ok) ==
    /\ actualizaciones[f] > 0
    /\ LecturaPosible(f, ok)
    /\ variables' = procesarArchivo(f, ok).indice
    /\ variablesPorArchivo' = procesarArchivo(f, ok).porArchivo
    /\ actualizaciones' = [actualizaciones EXCEPT ![f] = @ - 1]
    /\ onVariablesChange
    /\ evento' = Evento("actualizacionCompleta", f, 1, FALSE)
    /\ UNCHANGED <<disco, config, valido, archivosEscaneados, escaneando,
                   escaneos, timeout, timeoutsViejos, resolverPasoVars>>

\* onCrear: a file appears; a matched one is updated at once.
ArchivoCreado(f, t) ==
    /\ disco[f] = SinArchivo
    /\ disco' = [disco EXCEPT ![f] = t]
    /\ IF f \in config
        THEN actualizarArchivo(f)
        ELSE UNCHANGED <<variables, actualizaciones>>
    /\ evento' = Evento(IF f \in config THEN "crear" ELSE "sinWatcher",
                        f, 0, FALSE)
    /\ UNCHANGED <<config, valido, archivosEscaneados, variablesPorArchivo,
                   escaneando, escaneos, timeout, timeoutsViejos,
                   cacheResolucion, resolverPasoVars>>

\* onCambiar: a file is written; for a matched one the debounced update is
\* (re)armed with this file as its argument.
debounce(f) == timeout' = f

ArchivoCambiado(f, t) ==
    /\ disco[f] # SinArchivo
    /\ disco' = [disco EXCEPT ![f] = t]
    /\ IF f \in config THEN debounce(f) ELSE UNCHANGED timeout
    /\ evento' = Evento(IF f \in config THEN "cambiar" ELSE "sinWatcher",
                        f, 0, FALSE)
    /\ UNCHANGED <<config, cacheVars, escaneando, escaneos, actualizaciones,
                   timeoutsViejos, cacheResolucion, resolverPasoVars>>

\* The debounce timer expires: actualizarArchivo of its argument.
TimeoutVence ==
    /\ timeout # Nulo
    /\ actualizarArchivo(timeout)
    /\ timeout' = Nulo
    /\ evento' = Evento("timeout", timeout, 0, FALSE)
    /\ UNCHANGED <<disco, config, valido, archivosEscaneados,
                   variablesPorArchivo, escaneando, escaneos, timeoutsViejos,
                   cacheResolucion, resolverPasoVars>>

\* The timer of a closure that a configuration change replaced expires.
TimeoutViejoVence(f) ==
    /\ f \in timeoutsViejos
    /\ actualizarArchivo(f)
    /\ timeoutsViejos' = timeoutsViejos \ {f}
    /\ evento' = Evento("timeoutViejo", f, 0, FALSE)
    /\ UNCHANGED <<disco, config, valido, archivosEscaneados,
                   variablesPorArchivo, escaneando, escaneos, timeout,
                   cacheResolucion, resolverPasoVars>>

\* onEliminar: a file disappears; eliminarArchivo for a matched one.
ArchivoEliminado(f) ==
    /\ disco[f] # SinArchivo
    /\ disco' = [disco EXCEPT ![f] = SinArchivo]
    /\ IF f \in config
        THEN eliminarArchivo(f)
        ELSE /\ UNCHANGED <<variables, variablesPorArchivo,
                            archivosEscaneados, cacheResolucion>>
             /\ evento' = Evento("sinWatcher", f, 0, FALSE)
    /\ UNCHANGED <<config, valido, escaneando, escaneos, actualizaciones,
                   timeout, timeoutsViejos, resolverPasoVars>>

\* onConfigChange: watchers are disposed and configured again (the pending
\* timer of the old closure stays armed), the cache is marked invalid and
\* escanear(true) is called.
CambioConfig(p) ==
    /\ config' = p
    /\ valido' = FALSE
    /\ IF timeout = Nulo
        THEN UNCHANGED <<timeout, timeoutsViejos>>
        ELSE /\ Cardinality(timeoutsViejos) < MaxTimeoutsViejos
             /\ timeoutsViejos' = timeoutsViejos \cup {timeout}
             /\ timeout' = Nulo
    /\ IF IniciaEscaneo(TRUE, FALSE)
        THEN escanear(TRUE, FALSE, p)
        ELSE /\ escaneos' = Marcar(escaneos)
             /\ UNCHANGED escaneando
    /\ evento' = Evento("config", Nulo, 0, ~IniciaEscaneo(TRUE, FALSE))
    /\ UNCHANGED <<disco, variables, archivosEscaneados, variablesPorArchivo,
                   actualizaciones, cacheResolucion, resolverPasoVars>>

\* limpiarCache: a fresh, invalid, empty cache and one notification.
limpiarCacheSinInvalidar ==
    /\ UNCHANGED valido
    /\ variables' = FnVacia
    /\ archivosEscaneados' = {}
    /\ variablesPorArchivo' = FnVacia
    /\ onVariablesChange
limpiarCache ==
    /\ valido' = FALSE
    /\ variables' = FnVacia
    /\ archivosEscaneados' = {}
    /\ variablesPorArchivo' = FnVacia
    /\ onVariablesChange

\* .git/HEAD changes (or the clear-cache command runs): limpiarCache, then
\* escanear(true).
CambioGit ==
    /\ limpiarCache
    /\ escanear(TRUE, FALSE, config)
    /\ evento' = Evento("git", Nulo, 1, ~IniciaEscaneo(TRUE, FALSE))
    /\ UNCHANGED <<disco, config, actualizaciones, timeout, timeoutsViejos,
                   resolverPasoVars>>

invalidarCache ==
    /\ valido' = FALSE
    /\ escaneos' = Marcar(escaneos)
    /\ evento' = Evento("invalidar", Nulo, 0, FALSE)
    /\ UNCHANGED <<disco, config, variables, archivosEscaneados,
                   variablesPorArchivo, escaneando, actualizaciones,
                   timeout, timeoutsViejos, cacheResolucion, resolverPasoVars>>

\* resolver(nombre): served from the cache, else computed and cached.
Nombres == {"--a", "--b"}

resolver(n) ==
    /\ cacheResolucion' =
        IF n \in DOMAIN cacheResolucion
            THEN cacheResolucion
            ELSE cacheResolucion @@ (n :> resolverRecursivo(n, << >>, 0))
    /\ evento' = Evento("resolver", n, 0, n \in DOMAIN cacheResolucion)
    /\ UNCHANGED <<disco, config, cacheVars, escaneando, escaneos,
                   actualizaciones, timeout, timeoutsViejos, resolverPasoVars>>

\* ---------------------------------------------------------------- spec
Init ==
    /\ disco \in [Archivos -> {SinArchivo} \cup IdTextos]
    /\ \A f \in Archivos : disco[f] \in {SinArchivo} \cup TextosDe(f)
    /\ config \in Patrones
    /\ valido = FALSE
    /\ variables = FnVacia
    /\ archivosEscaneados = {}
    /\ variablesPorArchivo = FnVacia
    /\ escaneando = FALSE
    /\ escaneos = << >>
    /\ actualizaciones = [f \in Archivos |-> 0]
    /\ timeout = Nulo
    /\ timeoutsViejos = {}
    /\ cacheResolucion = FnVacia
    /\ pila = << >>
    /\ retorno = << >>
    /\ evento = Evento("inicio", Nulo, 0, FALSE)

Next ==
    \/ \E forzar \in BOOLEAN : LlamarEscanear(forzar)
    \/ \E i \in 1..MaxEscaneos : BusquedaCompleta(i)
    \/ \E i \in 1..MaxEscaneos, f \in Archivos, ok \in BOOLEAN :
            LecturaEscaneo(i, f, ok)
    \/ \E f \in Archivos, ok \in BOOLEAN : LecturaActualizacion(f, ok)
    \/ \E f \in Archivos : \E t \in TextosDe(f) : ArchivoCreado(f, t)
    \/ \E f \in Archivos : \E t \in TextosDe(f) : ArchivoCambiado(f, t)
    \/ TimeoutVence
    \/ \E f \in Archivos : TimeoutViejoVence(f)
    \/ \E f \in Archivos : ArchivoEliminado(f)
    \/ \E p \in Patrones : CambioConfig(p)
    \/ CambioGit
    \/ invalidarCache

Spec == Init /\ [][Next]_vars

\* ------------------------------------------------- scanner with resolver
\* The index under full scans, incremental updates, removals and cache
\* resets, with resolver() called at any moment. The patterns stay as
\* configured and file changes are taken as create and delete events.
InitCache == Init /\ config = Archivos

NextCache ==
    \/ \E forzar \in BOOLEAN : LlamarEscanear(forzar)
    \/ \E i \in 1..MaxEscaneos : BusquedaCompleta(i)
    \/ \E i \in 1..MaxEscaneos, f \in Archivos, ok \in BOOLEAN :
            LecturaEscaneo(i, f, ok)
    \/ \E f \in Archivos, ok \in BOOLEAN : LecturaActualizacion(f, ok)
    \/ \E f \in Archivos : \E t \in TextosDe(f) : ArchivoCreado(f, t)
    \/ \E f \in Archivos : ArchivoEliminado(f)
    \/ CambioGit
    \/ \E n \in Nombres : resolver(n)

SpecCache == InitCache /\ [][NextCache]_vars

\* ------------------------------------------------- full scans, read by read
\* Full scans with no file event, configuration change or cache reset in
\* between; each read of a scan completes, fails, or never completes.
LecturaSeAtasca(i, f) ==
    /\ i \in 1..Len(escaneos)
    /\ escaneos[i].fase = "procesando"
    /\ f \in escaneos[i].pendientes \ escaneos[i].atascadas
    /\ escaneos' = [escaneos EXCEPT ![i].atascadas = @ \cup {f}]
    /\ evento' = Evento("atasco", f, 0, FALSE)
    /\ UNCHANGED <<disco, config, cacheVars, escaneando, actualizaciones,
                   timeout, timeoutsViejos, cacheResolucion, resolverPasoVars>>

LecturaEscaneoViva(i, f, ok) ==
    /\ i \in 1..Len(escaneos)
    /\ f \notin escaneos[i].atascadas
    /\ LecturaEscaneo(i, f, ok)

\* The steps a suspended escanear call can take.
PasoEscaneo(i) ==
    \/ BusquedaCompleta(i)
    \/ \E f \in Archivos, ok \in BOOLEAN : LecturaEscaneoViva(i, f, ok)

NextLecturas ==
    \/ \E forzar \in BOOLEAN : LlamarEscanear(forzar)
    \/ \E i \in 1..MaxEscaneos : BusquedaCompleta(i)
    \/ \E i \in 1..MaxEscaneos, f \in Archivos, ok \in BOOLEAN :
            LecturaEscaneoViva(i, f, ok)
    \/ \E i \in 1..MaxEscaneos, f \in Archivos : LecturaSeAtasca(i, f)
    \/ invalidarCache

SpecLecturas == Init /\ [][NextLecturas]_vars

\* ------------------------------------------------- analysis of a document
existeVariable(nombre) == nombre \in DOMAIN variables
obtenerVariable(nombre) ==
    IF nombre \in DOMAIN variables THEN variables[nombre] ELSE Nulo

\* detectarVariablesNoDefinidas: the names that get a diagnostic "Variable
\* ... no está definida", in the order of their uses.
detectarVariablesNoDefinidas(resultadoParse) ==
    SelectSeq(resultadoParse.usosVariables,
              LAMBDA n : /\ ~existeVariable(n)
                         /\ \A k \in 1..Len(resultadoParse.variablesDefinidas) :
                                resultadoParse.variablesDefinidas[k] # n)

DiagnosticoNoDefinida(n) ==
    [code |-> "VariableNoDefinida", nombre |-> n, propiedad |-> << >>,
     valor |-> << >>, rango |-> "uso"]
DiagnosticoHardcoded(h) ==
    [code |-> "ValorHardcoded", nombre |-> << >>, propiedad |-> h.propiedad,
     valor |-> h.valor, rango |-> h.rango]

Diagnosticos(resultadoParse) ==
    LET noDefinidas == detectarVariablesNoDefinidas(resultadoParse)
        hardcoded == resultadoParse.valoresHardcoded
    IN  [k \in 1..Len(noDefinidas) |-> DiagnosticoNoDefinida(noDefinidas[k])]
        \o [k \in 1..Len(hardcoded) |-> DiagnosticoHardcoded(hardcoded[k])]

\* actualizarDiagnosticos of an open CSS document with the extension
\* enabled. escanear() returns at once while a scan runs or the cache is
\* valid, and the diagnostics are computed on the index as it is; otherwise
\* the call starts a scan and suspends, and what follows the await computes,
\* on the state the scan leaves, what the first branch computes there.
\* retorno holds the diagnostics set for the document: those of the
\* undefined variables, then one per hardcoded value of the parse.
actualizarDiagnosticos(f) ==
    /\ disco[f] \in IdDocumentos
    /\ IF valido \/ escaneando
        THEN /\ retorno' = Diagnosticos(parsearDocumento(DocumentoDe(disco[f])))
             /\ evento' = Evento("analisis", f, 0, TRUE)
             /\ UNCHANGED <<escaneando, escaneos>>
        ELSE /\ escanear(FALSE, valido, config)
             /\ evento' = Evento("analisisEspera", f, 0, FALSE)
             /\ UNCHANGED retorno
    /\ UNCHANGED <<disco, config, cacheVars, actualizaciones, timeout,
                   timeoutsViejos, cacheResolucion, pila>>

InitAnalisis ==
    /\ disco \in [Archivos -> IdDocumentos]
    /\ config \in Patrones
    /\ valido = FALSE
    /\ variables = FnVacia
    /\ archivosEscaneados = {}
    /\ variablesPorArchivo = FnVacia
    /\ escaneando = FALSE
    /\ escaneos = << >>
    /\ actualizaciones = [f \in Archivos |-> 0]
    /\ timeout = Nulo
    /\ timeoutsViejos = {}
    /\ cacheResolucion = FnVacia
    /\ pila = << >>
    /\ retorno = << >>
    /\ evento = Evento("inicio", Nulo, 0, FALSE)

NextAnalisis ==
    \/ \E forzar \in BOOLEAN : LlamarEscanear(forzar)
    \/ \E i \in 1..MaxEscaneos : BusquedaCompleta(i)
    \/ \E i \in 1..MaxEscaneos, f \in Archivos, ok \in BOOLEAN :
            LecturaEscaneo(i, f, ok)
    \/ \E f \in Archivos : actualizarDiagnosticos(f)

SpecAnalisis == InitAnalisis /\ [][NextAnalisis]_vars

\* ------------------------------------------------- a reset during a scan
\* The files stay as they are and every read succeeds; scans are asked for
\* at any moment and .git/HEAD changes (or the cache is cleared by the
\* command) at any moment, also between the reads of a scan.
InitLimpieza ==
    /\ Init
    /\ \A f \in Archivos : disco[f] # SinArchivo

NextLimpieza ==
    \/ \E forzar \in BOOLEAN : LlamarEscanear(forzar)
    \/ \E i \in 1..MaxEscaneos : BusquedaCompleta(i)
    \/ \E i \in 1..MaxEscaneos, f \in Archivos : LecturaEscaneo(i, f, TRUE)
    \/ CambioGit

SpecLimpieza == InitLimpieza /\ [][NextLimpieza]_vars

\* ------------------------------------------------- calls on values
\* The functions of values, called on their own: the frame of the call
\* holds the function and its argument, and the call returns its result.
MaxHex == 4
Cadenas(S, n) == UNION {[1..k -> S] : k \in 0..n}
Repetir(c, n) == [k \in 1..n |-> c]

ValoresHex ==
    {<<"#">> \o w : w \in Cadenas({"f", "g"}, MaxHex)}
    \cup {<<"#">> \o Repetir("f", n) : n \in 5..9}
    \cup {<<"#">> \o Repetir("F", n) : n \in {3, 8}}
    \cup {<<" ">> \o <<"#">> \o Repetir("0", 6) \o <<" ">>}

ValoresFuncion ==
    {n \o b \o r :
        n \in {Rgb, Rgba, Hsl, Hsla, <<"R", "G", "B", "(">>,
               <<"r", "g", "(">>, <<"r", "g", "b", "x", "(">>},
        b \in {<< >>, <<" ">>},
        r \in {<< >>, <<"2", "5", "5", ",", "0", ",", "0", ")">>}}
    \cup {<<"r", "g", "b", " ", "(", "0", ",", "0", ",", "0", ")">>,
          <<"r", "g", "b">>, <<"h", "s", "l", "a">>}

ValoresNumero ==
    {s \o d \o u :
        s \in {<< >>, <<"-">>},
        d \in {<<"1", "6">>, <<"0">>, <<"1", ".", "5">>, <<"1", ".">>,
               <<".", "5">>, << >>},
        u \in {<<"p", "x">>, <<"%">>, <<"P", "X">>, <<"r", "e", "m">>,
               <<"s">>, << >>, <<"x", "x">>, <<"t", "u", "r", "n">>}}

ValoresNombre ==
    {<<"r", "e", "d">>, <<"R", "e", "d">>, <<"t", "a", "n">>,
     <<"g", "o", "l", "d">>, <<" ", "r", "e", "d", " ">>,
     <<"t", "r", "a", "n", "s", "p", "a", "r", "e", "n", "t">>,
     <<"c", "o", "n", "s", "t", "r", "u", "c", "t", "o", "r">>,
     <<"r", "e", "d", "x">>, <<"x">>}

\* var(--size), calc(var(--x) + 10px), 16px var(--x), var(
ValoresConVar ==
    {<<"var(", "-", "-", "size", ")">>,
     <<"c", "a", "l", "c", "(", "var(", "-", "-", "x", ")", " ", "+", " ",
       "1", "0", "p", "x", ")">>,
     <<"1", "6", "p", "x", " ", "var(", "-", "-", "x", ")">>,
     <<"#", "f", "f", "f", " ", "var(", "-", "-", "x", ")">>,
     <<"var(">>}

ValoresClasificados ==
    ValoresHex \cup ValoresFuncion \cup ValoresNumero \cup ValoresNombre
        \cup ValoresConVar

\* Values made of pieces: a text without var(, or a reference with its
\* name, its fallback (Nulo when it has none) and the blanks put around
\* both.
MaxPiezas == 3
PiezaTexto(t) ==
    [esVar |-> FALSE, texto |-> t, nombre |-> << >>, fallback |-> Nulo,
     blancos |-> << >>]
PiezaVar(nombre, fallback, blancos) ==
    [esVar |-> TRUE, texto |-> << >>, nombre |-> nombre,
     fallback |-> fallback, blancos |-> blancos]

NStart == <<"-", "-", "s", "t", "a", "r", "t">>
NEnd == <<"-", "-", "e", "n", "d">>
NColor == <<"-", "-", "color">>
NPrimary == <<"-", "-", "p", "r", "i", "m", "a", "r", "y">>
TextoGradiente ==
    <<"l", "i", "n", "e", "a", "r", "-", "g", "r", "a", "d", "i", "e", "n",
      "t", "(">>

Piezas ==
    { PiezaTexto(TextoGradiente), PiezaTexto(<<",", " ">>),
      PiezaTexto(<<")">>), PiezaTexto(<<" ", "+", " ", "1", "0", "p", "x">>),
      PiezaVar(NStart, Nulo, << >>), PiezaVar(NEnd, Nulo, <<" ">>),
      PiezaVar(NColor, Hfff, <<" ">>),
      PiezaVar(Nc1, <<"1", "6", "p", "x">>, << >>) }

\* linear-gradient(var(--start), var(--end))
Gradiente ==
    << PiezaTexto(TextoGradiente), PiezaVar(NStart, Nulo, << >>),
       PiezaTexto(<<",", " ">>), PiezaVar(NEnd, Nulo, << >>),
       PiezaTexto(<<")">>) >>

Estructuras == Cadenas(Piezas, MaxPiezas) \cup {Gradiente}

RenderPieza(p) ==
    IF ~p.esVar THEN p.texto
    ELSE <<"var(">> \o p.blancos \o p.nombre \o p.blancos
            \o (IF p.fallback = Nulo THEN << >>
                 ELSE <<",">> \o p.blancos \o p.fallback \o p.blancos)
            \o <<")">>
Render(ps) == Aplanar([k \in 1..Len(ps) |-> RenderPieza(ps[k])])

\* References whose fallback holds a function call or a reference: the
\* fallback is `antes`, a closing parenthesis, and the pieces `despues`.
Anidada(nombre, antes, despues) ==
    [nombre |-> nombre, antes |-> antes, despues |-> despues]

Anidadas ==
    { \* var(--color, rgb(0, 0, 0))
      Anidada(NColor, <<"r", "g", "b", "(", "0", ",", " ", "0", ",", " ", "0">>,
              <<PiezaTexto(<<")">>)>>),
      \* var(--primary, var(--secondary))
      Anidada(NPrimary, <<"var(", "-", "-", "s", "e", "c", "o", "n", "d", "a",
                          "r", "y">>,
              <<PiezaTexto(<<")">>)>>),
      \* var(--color, calc(1px + var(--end)))
      Anidada(NColor, <<"c", "a", "l", "c", "(", "1", "p", "x", " ", "+", " ",
                        "var(", "-", "-", "e", "n", "d">>,
              <<PiezaTexto(<<")", ")">>)>>),
      \* var(--color, calc(var(--start) + var(--end)))
      Anidada(NColor, <<"c", "a", "l", "c", "(", "var(", "-", "-", "s", "t",
                        "a", "r", "t">>,
              <<PiezaTexto(<<" ", "+", " ">>), PiezaVar(NEnd, Nulo, << >>),
                PiezaTexto(<<")", ")">>)>>),
      \* var(--primary, var(--start) var(--end))
      Anidada(NPrimary, <<"var(", "-", "-", "s", "t", "a", "r", "t">>,
              <<PiezaTexto(<<" ">>), PiezaVar(NEnd, Nulo, << >>),
                PiezaTexto(<<")">>)>>) }

RenderAnidada(a) ==
    <<"var(">> \o a.nombre \o <<",", " ">> \o a.antes \o <<")">>
        \o Render(a.despues)

ValoresConReferencias ==
    {Render(ps) : ps \in Estructuras} \cup {RenderAnidada(a) : a \in Anidadas}

\* Colours: the hex forms over two digits, and the functions over some
\* numbers, with and without blanks, and some alphas.
NumerosColor == {<<"0">>, <<"2", "5", "5">>, <<"1", "6">>, <<"6", "6", "6">>}
Alfas ==
    {<<"0", ".", "5">>, <<"1">>, <<"0">>, <<".", "5">>, <<"1", ".", "5">>,
     <<".">>, <<"0", ".", "2">>, <<"5", "0", "%">>, <<"1", "0", "0", "%">>}
Tonos == {<<"0">>, <<"1", "2", "0">>, <<"2", "1", "0">>, <<"1", "5">>}
Saturaciones == {<<"0">>, <<"5", "0">>, <<"1", "0", "0">>}
Luces == {<<"0">>, <<"2", "0">>, <<"5", "0">>, <<"1", "0", "0">>}

ValoresColor ==
    {<<"#">> \o w : w \in [1..8 -> {"0", "f"}]}
    \cup {<<"#">> \o w : w \in [1..4 -> {"0", "a", "f"}]}
    \cup {<<"#", "1", "2", "5", "6", "a", "b">>,
          <<"#", "1", "2", "5", "6", "a", "b", "c", "d">>,
          <<"#", "F", "F", "0", "0", "0", "0", "6", "6">>}
    \cup ValoresHex \cup ValoresNombre
    \cup {<<"r", "g", "b", "(">> \o b \o x \o <<",">> \o b \o y \o <<",">>
            \o z \o b \o <<")">> :
            x \in NumerosColor, y \in NumerosColor, z \in NumerosColor,
            b \in {<< >>, <<" ">>}}
    \cup {f \o x \o <<",", "0", ",", " ", "1", "6", ",">> \o a \o <<")">> :
            f \in {Rgba, Rgb, <<"R", "G", "B", "a", "(">>},
            x \in NumerosColor, a \in Alfas}
    \cup {<<"r", "g", "b", "(">> \o x \o <<" ", "0", " ", "1", "6">> \o a
            \o <<")">> :
            x \in NumerosColor,
            a \in {<< >>} \cup {<<" ", "/", " ">> \o y : y \in Alfas}}
    \cup {<<"h", "s", "l", "(">> \o h \o <<",", " ">> \o x \o <<"%", ",">>
            \o l \o <<"%", ")">> :
            h \in Tonos, x \in Saturaciones, l \in Luces}
    \cup {<<"h", "s", "l", "a", "(">> \o h \o <<",", "5", "0", "%", ",">>
            \o l \o <<"%", ",">> \o a \o <<")">> :
            h \in Tonos, l \in Luces, a \in Alfas}
    \cup {<<"h", "s", "l", "(">> \o h \o <<" ", "1", "0", "0", "%", " ">>
            \o l \o <<"%">> \o a \o <<")">> :
            h \in Tonos, l \in Luces,
            a \in {<< >>} \cup {<<"/">> \o y : y \in Alfas}}

Llamada(funcion, valor) == [funcion |-> funcion, valor |-> valor]

Llamadas ==
    {Llamada("esValorHardcodeado", v) : v \in ValoresClasificados}
    \cup {Llamada("extraerVariablesDeValor", v) : v \in ValoresConReferencias}
    \cup {Llamada("parsearColor", v) : v \in ValoresColor}

InitValores ==
    /\ disco = [f \in Archivos |-> 1]
    /\ config \in Patrones
    /\ valido = FALSE
    /\ variables = FnVacia
    /\ archivosEscaneados = {}
    /\ variablesPorArchivo = FnVacia
    /\ escaneando = FALSE
    /\ escaneos = << >>
    /\ actualizaciones = [f \in Archivos |-> 0]
    /\ timeout = Nulo
    /\ timeoutsViejos = {}
    /\ cacheResolucion = FnVacia
    /\ pila \in {<<c>> : c \in Llamadas}
    /\ retorno = << >>
    /\ evento = Evento("inicio", Nulo, 0, FALSE)

Retorna(funcion, resultado) ==
    /\ pila # << >>
    /\ pila[1].funcion = funcion
    /\ retorno = << >>
    /\ retorno' = <<resultado>>
    /\ evento' = Evento(funcion, Nulo, 0, FALSE)
    /\ UNCHANGED <<disco, config, cacheVars, escaneando, escaneos,
                   actualizaciones, timeout, timeoutsViejos, cacheResolucion,
                   pila>>

LlamaEsValorHardcodeado ==
    /\ pila # << >>
    /\ Retorna("esValorHardcodeado", esValorHardcodeado(pila[1].valor))

LlamaExtraerVariablesDeValorPrimera ==
    /\ pila # << >>
    /\ Retorna("extraerVariablesDeValor",
               IF coincidenciasVar(pila[1].valor) = << >> THEN << >>
               ELSE <<Head(coincidenciasVar(pila[1].valor))>>)
LlamaExtraerVariablesDeValor ==
    /\ pila # << >>
    /\ Retorna("extraerVariablesDeValor", coincidenciasVar(pila[1].valor))

LlamaParsearColor ==
    /\ pila # << >>
    /\ Retorna("parsearColor", parsearColor(pila[1].valor))

NextValores ==
    \/ LlamaEsValorHardcodeado
    \/ LlamaExtraerVariablesDeValor
    \/ LlamaParsearColor

SpecValores == InitValores /\ [][NextValores]_vars

\* ------------------------------------------------- a change, then analysis
\* a.css declares --c and b.css uses it; a.css is rewritten at any moment,
\* scans and the debounced update of the watcher run, and documents are
\* analysed at any moment.
DocConC == Len(Textos) + 3
DocUsaC == Len(Textos) + 2
DocsCambio == {Len(Textos) + 3, Len(Textos) + 5, Len(Textos) + 6}

InitRemocion ==
    /\ disco = [f \in Archivos |-> IF f = "a.css" THEN DocConC ELSE DocUsaC]
    /\ config \in Patrones
    /\ valido = FALSE
    /\ variables = FnVacia
    /\ archivosEscaneados = {}
    /\ variablesPorArchivo = FnVacia
    /\ escaneando = FALSE
    /\ escaneos = << >>
    /\ actualizaciones = [f \in Archivos |-> 0]
    /\ timeout = Nulo
    /\ timeoutsViejos = {}
    /\ cacheResolucion = FnVacia
    /\ pila = << >>
    /\ retorno = << >>
    /\ evento = Evento("inicio", Nulo, 0, FALSE)

NextRemocion ==
    \/ \E forzar \in BOOLEAN : LlamarEscanear(forzar)
    \/ \E i \in 1..MaxEscaneos : BusquedaCompleta(i)
    \/ \E i \in 1..MaxEscaneos, f \in Archivos, ok \in BOOLEAN :
            LecturaEscaneo(i, f, ok)
    \/ \E t \in DocsCambio : ArchivoCambiado("a.css", t)
    \/ TimeoutVence
    \/ \E f \in Archivos, ok \in BOOLEAN : LecturaActualizacion(f, ok)
    \/ \E f \in Archivos : actualizarDiagnosticos(f)

SpecRemocion == InitRemocion /\ [][NextRemocion]_vars

\* ------------------------------------------------- resolver, step by step
\* resolverRecursivo as the calls it makes: pila holds one frame per call
\* that has not returned, the innermost last; retorno holds the value a call
\* has just returned, until its caller (or resolver) takes it.
MaxCadena == 12

NombresCadena ==
    <<"--v1", "--v2", "--v3", "--v4", "--v5", "--v6", "--v7", "--v8",
      "--v9", "--v10", "--v11", "--v12", "--v13", "--v14">>

\* The values the last variable of a chain of n takes: a literal, a
\* reference to an undeclared name, a reference into the chain (a cycle),
\* the empty value of `--x: ;`, a reference to the literal --fin (exact,
\* or with a fallback), and values with two references.
Colas(n) ==
    {<<Lit("#111")>>, <<Var("--nada")>>,
     <<Lit("1px "), Var("--nada")>>,
     << >>,
     <<Var("--fin")>>,
     <<VarCon("--fin", "#000")>>,
     <<Var("--fin"), Lit(" "), Var("--otra")>>,
     <<Var("--fin"), Lit(" "), Var("--fin")>>,
     <<Var("--nada"), Lit(" "), Var("--otra")>>}
        \cup {<<Var(NombresCadena[k])>> : k \in 1..n}

\* Two literal variables outside the chain.
Fijas == ("--fin" :> <<Lit("#222")>>) @@ ("--otra" :> <<Lit("#333")>>)

\* --v1: var(--v2); ... --v(n-1): var(--vn); --vn: cola
IndiceCadena(n, cola) ==
    [nombre \in {NombresCadena[k] : k \in 1..n} \cup DOMAIN Fijas |->
        IF nombre \in DOMAIN Fijas
            THEN [nombre |-> nombre, valor |-> Fijas[nombre],
                  archivo |-> "a.css"]
            ELSE LET k == CHOOSE j \in 1..n : NombresCadena[j] = nombre
                 IN  [nombre  |-> nombre,
                      valor   |-> IF k < n THEN <<Var(NombresCadena[k + 1])>>
                                  ELSE cola,
                      archivo |-> "a.css"]]

Marco(n, cadena, profundidad) ==
    [nombre |-> n, cadena |-> cadena, profundidad |-> profundidad]

Cima == pila[Len(pila)]

\* The call on top of the stack returns without recursing.
RetornaDirecto ==
    /\ pila # << >>
    /\ retorno = << >>
    /\ LET m == Cima
       IN  \/ /\ LimiteAlcanzado(m.profundidad) \/ EnCadena(m.cadena, m.nombre)
              /\ retorno' = <<NoEncontrada(m.cadena)>>
           \/ /\ ~LimiteAlcanzado(m.profundidad)
              /\ ~EnCadena(m.cadena, m.nombre)
              /\ m.nombre \notin DOMAIN variables
              /\ retorno' = <<NoEncontrada(Append(m.cadena, m.nombre))>>
           \/ /\ ~LimiteAlcanzado(m.profundidad)
              /\ ~EnCadena(m.cadena, m.nombre)
              /\ m.nombre \in DOMAIN variables
              /\ extraerVariablesDeValor(variables[m.nombre].valor) = << >>
              /\ retorno' = <<Encontrada(variables[m.nombre],
                                         variables[m.nombre].valor,
                                         Append(m.cadena, m.nombre))>>
    /\ pila' = SubSeq(pila, 1, Len(pila) - 1)
    /\ UNCHANGED <<disco, config, cacheVars, escaneando, escaneos,
                   actualizaciones, timeout, timeoutsViejos, cacheResolucion,
                   evento>>

\* The call on top of the stack calls itself for the first reference.
Desciende ==
    /\ pila # << >>
    /\ retorno = << >>
    /\ LET m == Cima
       IN  /\ ~LimiteAlcanzado(m.profundidad)
           /\ ~EnCadena(m.cadena, m.nombre)
           /\ m.nombre \in DOMAIN variables
           /\ extraerVariablesDeValor(variables[m.nombre].valor) # << >>
           /\ pila' = Append(pila,
                    Marco(extraerVariablesDeValor(variables[m.nombre].valor)[1].txt,
                          Append(m.cadena, m.nombre), m.profundidad + 1))
    /\ UNCHANGED <<disco, config, cacheVars, escaneando, escaneos,
                   actualizaciones, timeout, timeoutsViejos, cacheResolucion,
                   retorno, evento>>

\* The nested call has returned: its caller builds its own result.
Asciende ==
    /\ pila # << >>
    /\ retorno # << >>
    /\ LET m == Cima
       IN  retorno' = <<Combinar(variables[m.nombre],
                        extraerVariablesDeValor(variables[m.nombre].valor)[1],
                        retorno[1])>>
    /\ pila' = SubSeq(pila, 1, Len(pila) - 1)
    /\ UNCHANGED <<disco, config, cacheVars, escaneando, escaneos,
                   actualizaciones, timeout, timeoutsViejos, cacheResolucion,
                   evento>>

\* resolver(n) was called on an empty cache: evento.archivo keeps n.
InitResolver ==
    /\ disco = [f \in Archivos |-> SinArchivo]
    /\ config = Archivos
    /\ valido = TRUE
    /\ \E n \in 1..MaxCadena : \E cola \in Colas(n) :
            variables = IndiceCadena(n, cola)
    /\ archivosEscaneados = {"a.css"}
    /\ variablesPorArchivo = FnVacia
    /\ escaneando = FALSE
    /\ escaneos = << >>
    /\ actualizaciones = [f \in Archivos |-> 0]
    /\ timeout = Nulo
    /\ timeoutsViejos = {}
    /\ cacheResolucion = FnVacia
    /\ \E k \in 1..2 :
            /\ pila = <<Marco(NombresCadena[k], << >>, 0)>>
            /\ evento = Evento("resolver", NombresCadena[k], 0, FALSE)
    /\ retorno = << >>

NextResolver == RetornaDirecto \/ Desciende \/ Asciende

SpecResolver == InitResolver /\ [][NextResolver]_vars /\ WF_vars(NextResolver)

\* ================================================================ claims
OpsEscanear == {"escanear", "config", "git"}
OpsQuitar == {"crear", "timeout", "timeoutViejo"}
OpsProcesar == {"lecturaEscaneo", "escaneoCompleto", "actualizacionCompleta"}
OpsArchivo == {"crear", "cambiar", "eliminar", "timeout", "timeoutViejo",
               "actualizacionCompleta"}

\* What a suspended escanear call is doing, without the history field.
Progreso(escs) ==
    [i \in 1..Len(escs) |->
        <<escs[i].fase, escs[i].patrones, escs[i].archivos, escs[i].pendientes>>]

SinPendientes ==
    /\ ~escaneando
    /\ timeout = Nulo
    /\ timeoutsViejos = {}
    /\ \A f \in Archivos : actualizaciones[f] = 0

\* C1: at most one full scan is running at any time, the in-flight flag is
\* set exactly while it runs, and every escanear call made while it runs
\* (a direct call, forced or not, or the forced call of a configuration or
\* git HEAD change) returns at once and starts nothing: the running scan
\* keeps its phase, its file list and its pending reads, and a direct call
\* leaves the index and the cache untouched.
C1_UnSoloEscaneo ==
    /\ [](Len(escaneos) <= 1 /\ (escaneando <=> Len(escaneos) = 1))
    /\ [][(escaneando /\ evento'.op \in OpsEscanear) =>
            /\ evento'.inmediato
            /\ escaneando'
            /\ Progreso(escaneos') = Progreso(escaneos)
            /\ (evento'.op = "escanear" => cacheVars' = cacheVars)]_vars

\* C1 witness: a call was made while a scan was processing files, and it
\* returned at once.
C1_Testigo ==
    /\ evento.op = "escanear"
    /\ evento.inmediato
    /\ escaneando
    /\ ~valido
    /\ Len(escaneos) = 1
    /\ escaneos[1].fase = "procesando"

\* C2: when a configuration change or invalidarCache() marked the cache
\* invalid while a full scan was in flight, the completion of that scan does
\* not leave the cache marked Valid with nothing pending that would rescan.
C2_CambioNoPerdido ==
    [][(evento'.op = "escaneoCompleto"
            /\ \E i \in 1..Len(escaneos) : escaneos[i].invalidado)
        => ~(valido' /\ SinPendientes')]_vars

\* C3 as stated: from Valid, a configuration change, a git HEAD change or a
\* create, change or delete event of a matched file leaves the cache Invalid.
C3_Original ==
    [][(valido /\ evento'.op \in {"config", "git", "crear", "cambiar", "eliminar"})
        => ~valido']_vars

\* C3: a configuration change and a git HEAD change leave the cache Invalid;
\* the cache becomes Valid only by the completion of a full scan; the
\* create, change and delete events of a matched file and the incremental
\* updates they cause leave the valid flag as it was.
C3_Invalidacion ==
    [][/\ evento'.op \in {"config", "git"} => ~valido'
       /\ (~valido /\ valido') => evento'.op = "escaneoCompleto"
       /\ evento'.op \in OpsArchivo => valido' = valido]_vars

\* C3 witness: a configuration change found the cache Valid and left it
\* Invalid.
C3_Testigo ==
    /\ evento.op = "config"
    /\ evento.validoAntes
    /\ ~valido

\* C4: an escanear call made with the cache not Valid and no scan in flight
\* starts a full scan; while a scan is in flight one of its steps (the end
\* of the file search, the end of a read) can always be taken; the step
\* that ends the scan leaves the cache Valid, the flag cleared and no scan.
C4_EscaneoValida ==
    /\ [](escaneando =>
            \/ ENABLED (\E i \in 1..MaxEscaneos : BusquedaCompleta(i))
            \/ ENABLED (\E i \in 1..MaxEscaneos, f \in Archivos, ok \in BOOLEAN :
                            LecturaEscaneo(i, f, ok)))
    /\ [][/\ (~valido /\ ~escaneando /\ evento'.op = "escanear") =>
                /\ ~evento'.inmediato
                /\ escaneando'
                /\ Progreso(escaneos') =
                        <<<<"buscando", config, {}, {}>>>>
          /\ evento'.op = "escaneoCompleto" =>
                /\ valido'
                /\ ~escaneando'
                /\ escaneos' = << >>]_vars

\* C4 witness: a scan that read a file has completed.
C4_Testigo ==
    /\ evento.op = "escaneoCompleto"
    /\ evento.archivo # Nulo
    /\ valido
    /\ ~escaneando
    /\ archivosEscaneados # {}

C6_CacheResolucion ==
    /\ []((~escaneando /\ \A f \in Archivos : actualizaciones[f] = 0) =>
            \A n \in DOMAIN cacheResolucion :
                cacheResolucion[n] = resolverRecursivo(n, << >>, 0))
    /\ [][/\ evento'.disparos > 0 => cacheResolucion' = FnVacia
          /\ evento'.op = "resolver" =>
                IF evento'.archivo \in DOMAIN cacheResolucion
                    THEN cacheResolucion' = cacheResolucion
                    ELSE cacheResolucion' = cacheResolucion @@
                            (evento'.archivo :>
                                resolverRecursivo(evento'.archivo, << >>, 0))]_vars

\* C6 witness: after a completed scan, --b was resolved anew through --a
\* and is the only cached name.
C6_Testigo ==
    /\ evento.op = "resolver"
    /\ ~evento.inmediato
    /\ valido
    /\ DOMAIN cacheResolucion = {"--b"}
    /\ cacheResolucion["--b"].encontrada
    /\ cacheResolucion["--b"].cadenaResolucion = <<"--b", "--a">>

\* C7: the removal of file f leaves in the map exactly the entries that were
\* not owned by f, each unchanged, and leaves f out of the reverse index and
\* out of the scanned-file list.
C7_Eliminacion ==
    [][evento'.op = "eliminar" =>
        LET f == evento'.archivo
            resto == {n \in DOMAIN variables : variables[n].archivo # f}
        IN  /\ variables' = [n \in resto |-> variables[n]]
            /\ f \notin DOMAIN variablesPorArchivo'
            /\ f \notin archivosEscaneados']_vars

\* C8: the first part of an incremental update of f (the removal loop) and
\* its second part (the processing of f) keep every entry owned by another
\* file, owner and value; an entry that the removal loop deletes was owned
\* by f.
C8_SoloDueno ==
    [][(evento'.op \in OpsQuitar \cup {"actualizacionCompleta"}) =>
        LET f == evento'.archivo
        IN  /\ \A n \in DOMAIN variables :
                    variables[n].archivo # f =>
                        n \in DOMAIN variables' /\ variables'[n] = variables[n]
            /\ \A n \in (DOMAIN variables) \ DOMAIN variables' :
                    variables[n].archivo = f]_vars

\* C8 witness: the removal loop of an update of f has run, f's recorded
\* declarations include a name that another file owns, and the entry is
\* still there.
C8_Testigo ==
    /\ evento.op \in OpsQuitar
    /\ \E i \in 1..Len(Anteriores(evento.archivo)) :
            LET n == Anteriores(evento.archivo)[i].nombre
            IN  n \in DOMAIN variables /\ variables[n].archivo # evento.archivo

\* C9: the processing of a file, in a full scan or in an incremental update,
\* keeps every entry of the map as it is; what it adds are declarations of
\* the processed file under names that were absent.
C9_PrimeroGana ==
    [][(evento'.op \in OpsProcesar /\ evento'.archivo # Nulo) =>
        /\ \A n \in DOMAIN variables :
                n \in DOMAIN variables' /\ variables'[n] = variables[n]
        /\ \A n \in (DOMAIN variables') \ DOMAIN variables :
                variables'[n].archivo = evento'.archivo]_vars

\* C9 witness: a full scan has processed a file that declares a name which
\* was already registered for another file, and that file still owns it.
C9_Testigo ==
    /\ evento.op \in {"lecturaEscaneo", "escaneoCompleto"}
    /\ evento.archivo # Nulo
    /\ \E i \in 1..Len(Anteriores(evento.archivo)) :
            LET n == Anteriores(evento.archivo)[i].nombre
            IN  n \in DOMAIN variables /\ variables[n].archivo # evento.archivo

Terminado == pila = << >> /\ retorno # << >>

\* C10: resolver(n) terminates whatever the index holds; no call of
\* resolverRecursivo runs at a depth above 10, only calls at depths 0 to 9
\* look a name up, and the result is the one resolverRecursivo defines.
C10_Termina ==
    /\ [](/\ Len(pila) <= MAX_RESOLUCION_PROFUNDIDAD + 1
          /\ \A i \in 1..Len(pila) : pila[i].profundidad = i - 1
          /\ Terminado => retorno[1] = resolverRecursivo(evento.archivo, << >>, 0))
    /\ <>Terminado

\* C10 witness: a chain longer than the limit has taken the recursion to
\* depth 10, where it is aborted.
C10_Testigo ==
    /\ Len(pila) = MAX_RESOLUCION_PROFUNDIDAD + 1
    /\ Cima.profundidad = MAX_RESOLUCION_PROFUNDIDAD
    /\ Cima.nombre \in DOMAIN variables
    /\ retorno = << >>

\* The position of the first var() token of a value with references.
PrimeraRef(valor) ==
    CHOOSE i \in 1..Len(valor) :
        valor[i].tipo = "var" /\ \A j \in 1..(i - 1) : valor[j].tipo # "var"

TieneRef(valor) == \E i \in 1..Len(valor) : valor[i].tipo = "var"

\* A call of resolverRecursivo starts its nested call / takes its result.
PasoDesciende == pila # << >> /\ Len(pila') > Len(pila)
PasoAsciende == pila # << >> /\ retorno # << >> /\ Len(pila') < Len(pila)

\* The value of the variable that the innermost call is resolving.
ValorCima == variables[Cima.nombre].valor

\* --v(desde) .. --v(hasta - 1) each are exactly a reference to the next
\* one, and --v(hasta) is declared.
EsCadena(desde, hasta) ==
    /\ \A k \in desde..hasta : NombresCadena[k] \in DOMAIN variables
    /\ \A k \in desde..(hasta - 1) :
            variables[NombresCadena[k]].valor = <<Var(NombresCadena[k + 1])>>

\* C11: resolver(n) of a variable whose value is var(n) itself returns a
\* result with encontrada = false.
C11_AutoReferencia ==
    (/\ Terminado
     /\ evento.archivo \in DOMAIN variables
     /\ variables[evento.archivo].valor = <<Var(evento.archivo)>>)
        => ~retorno[1].encontrada

\* C12: resolver of the head of a chain of 11 or more variables, each a
\* reference to the next one, returns a result with encontrada = false.
C12_CadenaLarga ==
    (/\ Terminado
     /\ evento.archivo = NombresCadena[1]
     /\ EsCadena(1, 11))
        => ~retorno[1].encontrada

\* C13: a call for a variable whose value is exactly var(--other), whose
\* nested call found --other, returns the resolved value of --other; and
\* the head of an acyclic chain of at most 10 variables that ends in a
\* literal resolves to that literal.
C13_Transitiva ==
    /\ [][(/\ PasoAsciende
           /\ retorno[1].encontrada
           /\ Len(ValorCima) = 1
           /\ ValorCima[1].tipo = "var"
           /\ ValorCima[1].exacta)
            => retorno'[1].valorResuelto = retorno[1].valorResuelto]_vars
    /\ [](Terminado =>
            \A h \in 1..2 : \A n \in h..(h + 9) :
                (/\ evento.archivo = NombresCadena[h]
                 /\ n <= MaxCadena
                 /\ EsCadena(h, n)
                 /\ ~TieneRef(variables[NombresCadena[n]].valor))
                    => /\ retorno[1].encontrada
                       /\ retorno[1].valorResuelto =
                            variables[NombresCadena[n]].valor)

\* C14: the result of a top-level resolver(n) that is computed has
\* encontrada = true exactly when n is in the index.
C14_EncontradaEsDeclarada ==
    Terminado => (retorno[1].encontrada <=> evento.archivo \in DOMAIN variables)

\* C14 witness: a variable that refers to itself has been resolved: it is
\* declared, its reference did not resolve, and it is reported as found.
C14_Testigo ==
    /\ Terminado
    /\ evento.archivo \in DOMAIN variables
    /\ variables[evento.archivo].valor = <<Var(evento.archivo)>>
    /\ retorno[1].encontrada

\* C15: when the nested call for the first reference returns not-found, the
\* calling declaration is returned as found, with its resolved value and
\* its value both equal to its raw value.
C15_ValorParcial ==
    [][(PasoAsciende /\ ~retorno[1].encontrada) =>
        /\ retorno'[1].encontrada
        /\ retorno'[1].valor = ValorCima
        /\ retorno'[1].valorResuelto = ValorCima]_vars

\* C15 witness: the first reference of the resolved variable is undeclared
\* and the result is found with the raw value.
C15_Testigo ==
    /\ Terminado
    /\ evento.archivo \in DOMAIN variables
    /\ TieneRef(variables[evento.archivo].valor)
    /\ LET v == variables[evento.archivo].valor
       IN  /\ v[PrimeraRef(v)].txt \notin DOMAIN variables
           /\ retorno[1].encontrada
           /\ retorno[1].valorResuelto = v

SoloAtascadas(i) ==
    /\ escaneos[i].fase = "procesando"
    /\ escaneos[i].pendientes # {}
    /\ escaneos[i].pendientes \subseteq escaneos[i].atascadas

\* C17: a scan that awaits only reads that never complete can still take a
\* step (and so complete), or at least a forced escanear call made then
\* starts a new scan.
C17_LecturaAtascada ==
    \A i \in 1..Len(escaneos) :
        SoloAtascadas(i) =>
            (ENABLED PasoEscaneo(i) \/ IniciaEscaneo(TRUE, valido))

\* The names that the records of the reverse index declare.
NombresRegistrados ==
    UNION {{variablesPorArchivo[g][k].nombre :
                k \in 1..Len(variablesPorArchivo[g])} :
            g \in DOMAIN variablesPorArchivo}

\* C18: a read of a full scan that fails changes neither the index nor the
\* reverse index; when the scan completes the cache is Valid and the flag
\* is cleared, a file whose read failed has no record and owns no entry,
\* and every declaration of every file that was read is registered: its
\* name is in the index, with the declaration of one of the files read.
C18_FalloContenido ==
    /\ [][(/\ evento'.op \in {"lecturaEscaneo", "escaneoCompleto"}
           /\ evento'.archivo # Nulo
           /\ evento'.archivo \notin DOMAIN variablesPorArchivo')
            => /\ variables' = variables
               /\ variablesPorArchivo' = variablesPorArchivo]_vars
    /\ [](evento.op = "escaneoCompleto" =>
            /\ valido
            /\ ~escaneando
            /\ DOMAIN variablesPorArchivo \subseteq archivosEscaneados
            /\ \A f \in archivosEscaneados \ DOMAIN variablesPorArchivo :
                    \A n \in DOMAIN variables : variables[n].archivo # f
            /\ DOMAIN variables = NombresRegistrados
            /\ \A n \in DOMAIN variables :
                    \E k \in 1..Len(Anteriores(variables[n].archivo)) :
                        Anteriores(variables[n].archivo)[k] = variables[n])

\* C18 witness: a scan of two files has completed; the read of one failed
\* and the declarations of the other are in the index.
C18_Testigo ==
    /\ evento.op = "escaneoCompleto"
    /\ valido
    /\ \E f \in archivosEscaneados : f \notin DOMAIN variablesPorArchivo
    /\ \E g \in DOMAIN variablesPorArchivo :
            /\ Len(variablesPorArchivo[g]) > 0
            /\ \A k \in 1..Len(variablesPorArchivo[g]) :
                    variablesPorArchivo[g][k].nombre \in DOMAIN variables

\* The files of the last full scan whose read succeeded.
Leidos == archivosEscaneados \cap DOMAIN variablesPorArchivo

DeclaraDe(f) == Documentos[disco[f] - Len(Textos)].declara
NombresDe(f) == {DeclaraDe(f)[k].nombre : k \in 1..Len(DeclaraDe(f))}

\* C19: after a full scan, every declaration `--name: value;` of a scanned
\* file whose name no other scanned file declares is in the index, owned by
\* that file, with the value text less `!important` and the semicolon.
C19_ValorLiteral ==
    evento.op = "escaneoCompleto" =>
        \A f \in Leidos :
            \A k \in 1..Len(DeclaraDe(f)) :
                LET d == DeclaraDe(f)[k]
                IN  (\A g \in Leidos \ {f} : d.nombre \notin NombresDe(g))
                    => /\ existeVariable(d.nombre)
                       /\ obtenerVariable(d.nombre).archivo = f
                       /\ obtenerVariable(d.nombre).valor = d.valor

\* The names that the diagnostics report as undefined, in their order.
NoDefinidas(diagnosticos) ==
    LET d == SelectSeq(diagnosticos, LAMBDA x : x.code = "VariableNoDefinida")
    IN  [k \in 1..Len(d) |-> d[k].nombre]

\* C20: with `:root{--c:#111}` in a.css and `.x{color:var(--c)}` in b.css,
\* the analysis of b.css after a full scan of both files reports no
\* undefined variable.
C20_DefinidaSinDiagnostico ==
    (/\ evento.op = "analisis"
     /\ evento.archivo = "b.css"
     /\ DocumentoDe(disco["a.css"]) = Documentos[1].texto
     /\ DocumentoDe(disco["b.css"]) = Documentos[2].texto
     /\ valido
     /\ ~escaneando
     /\ "a.css" \in Leidos)
    => NoDefinidas(retorno) = << >>

\* a.css as it is on disk holds no declaration of --c.
SinDeclaracionDeC ==
    /\ disco["a.css"] \in IdDocumentos
    /\ \A k \in 1..Len(DocumentoDe(disco["a.css"])) :
            DocumentoDe(disco["a.css"])[k] # "c"

EnReposo ==
    /\ ~escaneando
    /\ escaneos = << >>
    /\ timeout = Nulo
    /\ \A f \in Archivos : actualizaciones[f] = 0

\* The index has been brought up to date with a.css as it is on disk: the
\* cache is valid, no scan, update or timer is pending, and the record of
\* a.css holds the declarations of its present text.
Reescaneado ==
    /\ valido
    /\ EnReposo
    /\ "a.css" \in DOMAIN variablesPorArchivo
    /\ variablesPorArchivo["a.css"] = parsearDefiniciones("a.css", disco["a.css"])

\* C21: after a.css is changed so that it no longer declares --c and the
\* index is re-scanned, the analysis of b.css (`.x{color:var(--c)}`) reports
\* exactly one undefined variable, --c.
C21_RemocionDetectada ==
    (/\ evento.op = "analisis"
     /\ evento.archivo = "b.css"
     /\ SinDeclaracionDeC
     /\ Reescaneado)
    => NoDefinidas(retorno) = <<Nc>>

\* The names a text declares: every `--name` that is followed, after
\* optional blanks, by a colon.
DeclaradasEn(t) ==
    {SubSeq(t, i, PrimeroFuera(t, i, CaracteresNombre) - 1) :
        i \in {i \in 1..(Len(t) - 2) :
                /\ t[i] = "-" /\ t[i + 1] = "-"
                /\ t[i + 2] \in CaracteresNombre
                /\ (i > 1 => t[i - 1] \notin CaracteresNombre \cup {"var("})
                /\ LET k == PrimeroFuera(t, PrimeroFuera(t, i, CaracteresNombre),
                                         Espacios)
                   IN  k <= Len(t) /\ t[k] = ":"}}

Veces(sec, n) == Cardinality({k \in 1..Len(sec) : sec[k] = n})

NombresDeTexto == {Nc, Ns, Nc1}

\* C22: the analysis of a document reports a used name as undefined exactly
\* when the name is neither in the global index nor declared in the
\* document itself, once for each of its uses.
C22_NoDefinidaSiySoloSi ==
    evento.op = "analisis" =>
        LET t == DocumentoDe(disco[evento.archivo])
        IN  \A n \in NombresDeTexto :
                Veces(NoDefinidas(retorno), n) =
                    IF ~existeVariable(n) /\ n \notin DeclaradasEn(t)
                        THEN Veces(extraerVariablesDeTexto(t), n)
                        ELSE 0

\* The declarations of the document of f as written, and the var()
\* references of their values.
DeclaracionesDe(f) == Documentos[disco[f] - Len(Textos)].declaraciones
UsosEscritos(f) ==
    Aplanar([k \in 1..Len(DeclaracionesDe(f)) |->
                coincidenciasVar(DeclaracionesDe(f)[k].valor)])

\* The diagnostics of hardcoded values placed on a use of a variable with
\* the fallback v.
DeFallback(diagnosticos, v) ==
    {k \in 1..Len(diagnosticos) :
        /\ diagnosticos[k].code # "VariableNoDefinida"
        /\ diagnosticos[k].rango = "uso"
        /\ diagnosticos[k].valor = v}

\* C23: a use whose fallback is classified hardcoded gets a diagnostic of
\* hardcoded fallback exactly when the fallback is not in the allow-list: a
\* hardcoded fallback of the allow-list gets none, any other gets one per
\* use.
C23_FallbackSegunLista ==
    evento.op = "analisis" =>
        LET usos == UsosEscritos(evento.archivo)
        IN  \A k \in 1..Len(usos) :
                (usos[k].fallback # Nulo /\ esValorHardcodeado(usos[k].fallback))
                => Cardinality(DeFallback(retorno, usos[k].fallback)) =
                        IF esValorPermitido(usos[k].fallback) THEN 0
                        ELSE Cardinality({j \in 1..Len(usos) :
                                            usos[j].fallback = usos[k].fallback})

\* C24: the declarations reported as hardcoded values are exactly the
\* declarations of the document that are not variable definitions, whose
\* property is enabled by its exact name or else by what precedes its first
\* hyphen, and whose value is not in the allow-list and is classified
\* hardcoded.
C24_HardcodedSiySoloSi ==
    evento.op = "analisis" =>
        LET reportadas == SelectSeq(retorno,
                            LAMBDA x : x.code = "ValorHardcoded" /\ x.rango = "valor")
            esperadas == SelectSeq(DeclaracionesDe(evento.archivo),
                            LAMBDA d : /\ ~esDefinicionVariable(d.propiedad)
                                       /\ deberiVerificarPropiedad(d.propiedad)
                                       /\ ~esValorPermitido(d.valor)
                                       /\ esValorHardcodeado(d.valor))
        IN  [k \in 1..Len(reportadas) |->
                [propiedad |-> reportadas[k].propiedad,
                 valor |-> reportadas[k].valor]] = esperadas

\* The conditions of a hardcoded value in the words of the description,
\* on the value without the blanks around it and without regard to case.
ContieneVar(v) == \E k \in 1..Len(v) : v[k] = "var("
EsNumero(w) ==
    LET d == IF w # << >> /\ w[1] = "-" THEN Tail(w) ELSE w
    IN  \E n \in 1..Len(d) :
            /\ \A k \in 1..n : d[k] \in Digitos
            /\ \/ n = Len(d)
               \/ /\ n + 1 < Len(d)
                  /\ d[n + 1] = "."
                  /\ \A k \in (n + 2)..Len(d) : d[k] \in Digitos
EsNumeroConUnidad(v) ==
    \E i \in 1..Len(v) :
        /\ EsNumero(SubSeq(v, 1, i))
        /\ toLowerCase(SubSeq(v, i + 1, Len(v))) \in Unidades
EsPrefijoDeFuncion(v) ==
    \E w \in {<<"r", "g", "b">>, <<"r", "g", "b", "a">>, <<"h", "s", "l">>,
              <<"h", "s", "l", "a">>} :
        \E n \in Len(w)..(Len(v) - 1) :
            /\ toLowerCase(SubSeq(v, 1, Len(w))) = w
            /\ \A k \in (Len(w) + 1)..n : v[k] = " "
            /\ v[n + 1] = "("
EsColorNombrado(v) == toLowerCase(v) \in DOMAIN NAMED_COLORS

Clasificado ==
    /\ evento.op = "esValorHardcodeado"
    /\ retorno # << >>

\* C25: esValorHardcodeado(value) is true exactly when the value holds no
\* `var(` and is a hex colour of 3, 4, 6 or 8 digits, or starts with rgb(,
\* rgba(, hsl( or hsla(, or is a number followed by a recognised unit, or is
\* a named colour.
C25_HardcodeadoSiySoloSi ==
    Clasificado =>
        LET v == trim(pila[1].valor)
        IN  retorno[1] <=>
                /\ ~ContieneVar(v)
                /\ \/ \E n \in {3, 4, 6, 8} : PatronHex(v, n)
                   \/ EsPrefijoDeFuncion(v)
                   \/ EsNumeroConUnidad(v)
                   \/ EsColorNombrado(v)

\* The references of a value made of pieces: one per reference piece, in
\* the order of the pieces, with its name and its fallback.
ReferenciasDe(ps) ==
    LET vs == SelectSeq(ps, LAMBDA p : p.esVar)
    IN  [k \in 1..Len(vs) |->
            [nombreVariable |-> vs[k].nombre, fallback |-> vs[k].fallback]]

Extraido ==
    /\ evento.op = "extraerVariablesDeValor"
    /\ retorno # << >>

\* C26: extraerVariablesDeValor returns every var() reference of the value,
\* from left to right, each with its name and its fallback, Nulo when it has
\* none; linear-gradient(var(--start), var(--end)) gives --start, then --end.
C26_ReferenciasEnOrden ==
    Extraido =>
        /\ \A ps \in Estructuras :
                pila[1].valor = Render(ps) => retorno[1] = ReferenciasDe(ps)
        /\ pila[1].valor = Render(Gradiente) =>
                retorno[1] = <<[nombreVariable |-> NStart, fallback |-> Nulo],
                               [nombreVariable |-> NEnd, fallback |-> Nulo]>>

C26_Testigo ==
    /\ Extraido
    /\ pila[1].valor = Render(Gradiente)
    /\ Len(retorno[1]) = 2

\* C27 as stated: a reference whose fallback holds a function call or a
\* reference gives exactly one reference, its fallback cut at the first
\* closing parenthesis.
C27_UnaSolaReferencia ==
    Extraido =>
        \A a \in Anidadas :
            pila[1].valor = RenderAnidada(a) =>
                retorno[1] = <<[nombreVariable |-> a.nombre, fallback |-> a.antes]>>

\* C27: the fallback of such a reference is cut at its first closing
\* parenthesis, and a reference that starts before that parenthesis is not
\* returned on its own; the references that follow the parenthesis are
\* returned after it. For `var(--color, rgb(0, 0, 0))` the only reference
\* has the fallback `rgb(0, 0, 0`.
C27_CortadoEnPrimerCierre ==
    Extraido =>
        /\ \A a \in Anidadas :
                pila[1].valor = RenderAnidada(a) =>
                    retorno[1] = <<[nombreVariable |-> a.nombre,
                                    fallback |-> a.antes]>>
                                 \o ReferenciasDe(a.despues)
        /\ pila[1].valor = <<"var(">> \o NColor
                            \o <<",", " ", "r", "g", "b", "(", "0", ",", " ",
                                 "0", ",", " ", "0", ")", ")">>
            => retorno[1] = <<[nombreVariable |-> NColor,
                               fallback |-> <<"r", "g", "b", "(", "0", ",",
                                              " ", "0", ",", " ", "0">>]>>

C27_Testigo ==
    /\ Extraido
    /\ pila[1].valor = <<"var(">> \o NPrimary
                        \o <<",", " ", "var(", "-", "-", "s", "e", "c", "o",
                             "n", "d", "a", "r", "y", ")", ")">>
    /\ Len(retorno[1]) = 1
    /\ retorno[1][1].fallback[1] = "var("

ColorAceptado ==
    /\ evento.op = "parsearColor"
    /\ retorno # << >>
    /\ retorno[1].formato # "nulo"

\* C28: for every value that parsearColor accepts, rgbAHex of the parsed
\* channels r, g, b and a is the hex of the parsed colour.
C28_IdaYVuelta ==
    ColorAceptado =>
        rgbAHex(retorno[1].r, retorno[1].g, retorno[1].b, retorno[1].a)
            = retorno[1].hex

\* C29: with every read succeeding, whenever the cache is valid and no
\* scan is in flight the index holds every name declared by every file of
\* the list of scanned files, also when limpiarCache ran during the scan.
C29_IndiceDeLoEscaneado ==
    (valido /\ ~escaneando) =>
        \A f \in archivosEscaneados :
            \A k \in 1..Len(parsearDefiniciones(f, disco[f])) :
                existeVariable(parsearDefiniciones(f, disco[f])[k].nombre)

\* The record of f in the index is that of its text on disk.
Reflejado(f) ==
    /\ f \in DOMAIN variablesPorArchivo
    /\ variablesPorArchivo[f] = parsearDefiniciones(f, disco[f])

\* Something is under way that will read f again: a timer armed for f, an
\* update of f awaiting its read, or a full scan in flight.
PendienteDe(f) ==
    \/ timeout = f
    \/ f \in timeoutsViejos
    \/ actualizaciones[f] > 0
    \/ escaneando

\* C30: when a matched file receives a change event while the debounce
\* timer is armed for another matched file, each of the two files is then
\* reflected in the index or still has its update under way, so that both
\* get reflected with no later full scan.
C30_DosArchivosEnLaVentana ==
    [][(/\ evento'.op = "cambiar"
        /\ timeout # Nulo
        /\ timeout # evento'.archivo)
        => \A f \in {timeout, evento'.archivo} :
                Reflejado(f)' \/ PendienteDe(f)']_vars

\* No full scan is running and no incremental update awaits its read.
SinOperacion ==
    /\ ~escaneando
    /\ \A f \in Archivos : actualizaciones[f] = 0

\* C31: whenever no scanner operation is in flight, every name listed in
\* the reverse-index record of some file is in the global map; so a name
\* declared in two files stays in the index through the other file when its
\* owner is deleted or stops declaring it.
C31_ListadoEstaEnIndice ==
    SinOperacion =>
        \A f \in DOMAIN variablesPorArchivo :
            \A k \in 1..Len(variablesPorArchivo[f]) :
                existeVariable(variablesPorArchivo[f][k].nombre)

\* C32: while the cache reports valid, a reader never sees a cleared or
\* partially rebuilt index: the steps of a running scan that leave the scan
\* unfinished (the clearing after the file search, each read but the last)
\* leave the global map as it was, so existeVariable and obtenerVariable
\* answer from the previous index until the new one is complete.
C32_LectorVeIndiceAnterior ==
    [][(evento'.op \in {"busquedaCompleta", "lecturaEscaneo"} /\ valido')
            => variables' = variables]_vars

\* C33: every entry of the global map is listed in the reverse-index record
\* of the file that owns it, whatever the interleaving of full scans,
\* incremental updates and removals.
C33_DuenoLista ==
    \A n \in DOMAIN variables :
        /\ variables[n].archivo \in DOMAIN variablesPorArchivo
        /\ \E k \in 1..Len(variablesPorArchivo[variables[n].archivo]) :
                variablesPorArchivo[variables[n].archivo][k].nombre = n

\* C34: escanear() without force on a valid cache, with no scan running,
\* returns at once: no file search is started, the map, the reverse index,
\* the scanned-file list and the valid flag stay as they were, and no
\* notification is fired (the resolver cache is kept).
C34_CacheValidoSinEfecto ==
    [][(LlamarEscanear(FALSE) /\ valido /\ ~escaneando) =>
            /\ evento'.inmediato
            /\ evento'.disparos = 0
            /\ ~escaneando'
            /\ escaneos' = escaneos
            /\ cacheVars' = cacheVars
            /\ cacheResolucion' = cacheResolucion]_vars

\* C34 witness: a call returned at once on a valid, non-empty index with no
\* scan running.
C34_Testigo ==
    /\ evento.op = "escanear"
    /\ evento.inmediato
    /\ valido
    /\ ~escaneando
    /\ escaneos = << >>
    /\ variables # FnVacia
    /\ archivosEscaneados # {}

\* ------------------------------------------- resolver cache under changes
\* The scanner with the resolver and with file changes taken through the
\* debounced update; the patterns stay as configured.
NextResolucion ==
    \/ NextCache
    \/ \E f \in Archivos : \E t \in TextosDe(f) : ArchivoCambiado(f, t)
    \/ TimeoutVence

SpecResolucion == InitCache /\ [][NextResolucion]_vars

\* C35: whenever no scan and no incremental update is in flight, every
\* cached result of resolver has the found flag and the resolved value that
\* a resolution computed now against the index would have.
C35_CacheIgualAFresca ==
    SinOperacion =>
        \A n \in DOMAIN cacheResolucion :
            LET fresca == resolverRecursivo(n, << >>, 0)
            IN  /\ cacheResolucion[n].encontrada = fresca.encontrada
                /\ ValorFinal(cacheResolucion[n]) = ValorFinal(fresca)

\* C35 witness: with nothing in flight and no timer armed, --b (declared in
\* a.css) has just been resolved and cached through the --a that b.css owns.
C35_Testigo ==
    /\ SinOperacion
    /\ evento.op = "resolver"
    /\ ~evento.inmediato
    /\ timeout = Nulo
    /\ "--b" \in DOMAIN cacheResolucion
    /\ cacheResolucion["--b"].encontrada
    /\ "--a" \in DOMAIN variables
    /\ variables["--a"].archivo = "b.css"
    /\ ValorFinal(cacheResolucion["--b"]) = <<Lit("#111")>>

\* ------------------------------------------ notifications and the pipeline
\* The scanner together with the diagnostic provider's listener. Inside
\* fire() the listener runs actualizarTodosDocumentos up to its first await:
\* escanear() without force for the first open document. The remaining
\* documents of the loop call escanear() in later slices (pila holds the
\* pending loop). retorno counts, since the last external event, the full
\* scans started and the notifications fired.
pipelineEscaneaForzando(escaneandoAhora, validoAhora) == ~escaneandoAhora
pipelineEscanea(escaneandoAhora, validoAhora) ==
    /\ ~escaneandoAhora
    /\ ~validoAhora

BuclePendiente == <<"actualizarTodosDocumentos">>

Contar(escaneosMas, avisosMas) ==
    retorno' = <<retorno[1] + escaneosMas, retorno[2] + avisosMas>>

\* fire() from a handler that leaves _escaneando as it found it.
alAvisar(validoAhora) ==
    /\ onVariablesChange
    /\ pila' = BuclePendiente
    /\ IF pipelineEscanea(escaneando, validoAhora)
        THEN /\ Len(escaneos) < MaxEscaneos
             /\ escaneando' = TRUE
             /\ escaneos' = Append(escaneos, NuevoEscaneo(config))
        ELSE UNCHANGED <<escaneando, escaneos>>

\* escanear from Promise.all on: valido is set, fire() runs the listener
\* while _escaneando is still true, and finally clears the flag.
escanearFinAvisa(i, archivos, f) ==
    /\ archivosEscaneados' = archivos
    /\ valido' = TRUE
    /\ onVariablesChange
    /\ pila' = BuclePendiente
    /\ escaneando' = FALSE
    /\ IF pipelineEscanea(TRUE, TRUE)
        THEN /\ escaneos' = Append(SinEscaneo(i), NuevoEscaneo(config))
             /\ Contar(1, 1)
        ELSE /\ escaneos' = SinEscaneo(i)
             /\ Contar(0, 1)
    /\ evento' = Evento("escaneoCompleto", f, 1, FALSE)

AvisoBusqueda(i) ==
    /\ i \in 1..Len(escaneos)
    /\ escaneos[i].fase = "buscando"
    /\ LET archivos == {f \in escaneos[i].patrones : disco[f] # SinArchivo}
       IN  /\ variables' = FnVacia
           /\ variablesPorArchivo' = FnVacia
           /\ IF archivos = {}
                THEN escanearFinAvisa(i, archivos, Nulo)
                ELSE /\ archivosEscaneados' = {}
                     /\ escaneos' = [escaneos EXCEPT ![i] =
                            [@ EXCEPT !.fase = "procesando",
                                      !.archivos = archivos,
                                      !.pendientes = archivos]]
                     /\ evento' = Evento("busquedaCompleta", Nulo, 0, FALSE)
                     /\ UNCHANGED <<valido, escaneando, cacheResolucion,
                                    pila, retorno>>
    /\ UNCHANGED <<disco, config, actualizaciones, timeout, timeoutsViejos>>

AvisoLecturaEscaneo(i, f, ok) ==
    /\ i \in 1..Len(escaneos)
    /\ escaneos[i].fase = "procesando"
    /\ f \in escaneos[i].pendientes
    /\ LecturaPosible(f, ok)
    /\ variables' = procesarArchivo(f, ok).indice
    /\ variablesPorArchivo' = procesarArchivo(f, ok).porArchivo
    /\ IF escaneos[i].pendientes = {f}
        THEN escanearFinAvisa(i, escaneos[i].archivos, f)
        ELSE /\ escaneos' = [escaneos EXCEPT ![i].pendientes = @ \ {f}]
             /\ evento' = Evento("lecturaEscaneo", f, 0, FALSE)
             /\ UNCHANGED <<valido, archivosEscaneados, escaneando,
                            cacheResolucion, pila, retorno>>
    /\ UNCHANGED <<disco, config, actualizaciones, timeout, timeoutsViejos>>

AvisoLecturaActualizacion(f, ok) ==
    /\ actualizaciones[f] > 0
    /\ LecturaPosible(f, ok)
    /\ variables' = procesarArchivo(f, ok).indice
    /\ variablesPorArchivo' = procesarArchivo(f, ok).porArchivo
    /\ actualizaciones' = [actualizaciones EXCEPT ![f] = @ - 1]
    /\ alAvisar(valido)
    /\ Contar(IF pipelineEscanea(escaneando, valido) THEN 1 ELSE 0, 1)
    /\ evento' = Evento("actualizacionCompleta", f, 1, FALSE)
    /\ UNCHANGED <<disco, config, valido, archivosEscaneados, timeout,
                   timeoutsViejos>>

\* A later document of a pending loop reaches its escanear() call; the loop
\* may have further documents.
AvisoBucle ==
    /\ pila = BuclePendiente
    /\ pila' \in {pila, << >>}
    /\ escanear(FALSE, valido, config)
    /\ Contar(IF IniciaEscaneo(FALSE, valido) THEN 1 ELSE 0, 0)
    /\ evento' = Evento("escanear", Nulo, 0, ~IniciaEscaneo(FALSE, valido))
    /\ UNCHANGED <<disco, config, cacheVars, actualizaciones, timeout,
                   timeoutsViejos, cacheResolucion>>

\* External events; each restarts the count.
AvisoCreado(f, t) ==
    /\ disco[f] = SinArchivo
    /\ disco' = [disco EXCEPT ![f] = t]
    /\ actualizarArchivo(f)
    /\ retorno' = <<0, 0>>
    /\ evento' = Evento("crear", f, 0, FALSE)
    /\ UNCHANGED <<config, valido, archivosEscaneados, variablesPorArchivo,
                   escaneando, escaneos, timeout, timeoutsViejos,
                   cacheResolucion, pila>>

AvisoEliminado(f) ==
    /\ disco[f] # SinArchivo
    /\ disco' = [disco EXCEPT ![f] = SinArchivo]
    /\ IF f \in DOMAIN variablesPorArchivo
        THEN /\ variables' = QuitarDelIndice(variables,
                                variablesPorArchivo[f], f)
             /\ variablesPorArchivo' = Quitar(variablesPorArchivo, f)
             /\ archivosEscaneados' = archivosEscaneados \ {f}
             /\ alAvisar(valido)
             /\ retorno' = <<IF pipelineEscanea(escaneando, valido)
                                THEN 1 ELSE 0, 1>>
             /\ evento' = Evento("eliminar", f, 1, FALSE)
        ELSE /\ UNCHANGED <<variables, variablesPorArchivo,
                            archivosEscaneados, cacheResolucion, escaneando,
                            escaneos, pila>>
             /\ retorno' = <<0, 0>>
             /\ evento' = Evento("eliminar", f, 0, FALSE)
    /\ UNCHANGED <<config, valido, actualizaciones, timeout, timeoutsViejos>>

\* .git/HEAD changes: limpiarCache fires with the cache invalid, then
\* escanear(true) starts a scan unless one is running or the listener has
\* just started one.
AvisoGit ==
    /\ valido' = FALSE
    /\ variables' = FnVacia
    /\ archivosEscaneados' = {}
    /\ variablesPorArchivo' = FnVacia
    /\ onVariablesChange
    /\ pila' = BuclePendiente
    /\ IF escaneando
        THEN UNCHANGED <<escaneando, escaneos>>
        ELSE /\ Len(escaneos) < MaxEscaneos
             /\ escaneando' = TRUE
             /\ escaneos' = Append(escaneos, NuevoEscaneo(config))
    /\ retorno' = <<IF escaneando THEN 0 ELSE 1, 1>>
    /\ evento' = Evento("git", Nulo, 1, escaneando)
    /\ UNCHANGED <<disco, config, actualizaciones, timeout, timeoutsViejos>>

AvisoInvalidar ==
    /\ valido
    /\ valido' = FALSE
    /\ escaneos' = Marcar(escaneos)
    /\ retorno' = <<0, 0>>
    /\ evento' = Evento("invalidar", Nulo, 0, FALSE)
    /\ UNCHANGED <<disco, config, variables, archivosEscaneados,
                   variablesPorArchivo, escaneando, actualizaciones,
                   timeout, timeoutsViejos, cacheResolucion, pila>>

\* The refresh command: escanear(true).
AvisoRefrescar ==
    /\ escanear(TRUE, valido, config)
    /\ retorno' = <<IF IniciaEscaneo(TRUE, valido) THEN 1 ELSE 0, 0>>
    /\ evento' = Evento("escanear", Nulo, 0, ~IniciaEscaneo(TRUE, valido))
    /\ UNCHANGED <<disco, config, cacheVars, actualizaciones, timeout,
                   timeoutsViejos, cacheResolucion, pila>>

InitAviso ==
    /\ disco \in [Archivos -> {SinArchivo} \cup IdTextos]
    /\ \A f \in Archivos : disco[f] \in {SinArchivo} \cup TextosDe(f)
    /\ config = Archivos
    /\ valido = FALSE
    /\ variables = FnVacia
    /\ archivosEscaneados = {}
    /\ variablesPorArchivo = FnVacia
    /\ escaneando = FALSE
    /\ escaneos = << >>
    /\ actualizaciones = [f \in Archivos |-> 0]
    /\ timeout = Nulo
    /\ timeoutsViejos = {}
    /\ cacheResolucion = FnVacia
    /\ pila = << >>
    /\ retorno = <<0, 0>>
    /\ evento = Evento("inicio", Nulo, 0, FALSE)

NextAviso ==
    \/ \E i \in 1..MaxEscaneos : AvisoBusqueda(i)
    \/ \E i \in 1..MaxEscaneos, f \in Archivos, ok \in BOOLEAN :
            AvisoLecturaEscaneo(i, f, ok)
    \/ \E f \in Archivos, ok \in BOOLEAN : AvisoLecturaActualizacion(f, ok)
    \/ AvisoBucle
    \/ \E f \in Archivos : \E t \in TextosDe(f) : AvisoCreado(f, t)
    \/ \E f \in Archivos : AvisoEliminado(f)
    \/ AvisoGit
    \/ AvisoInvalidar
    \/ AvisoRefrescar

SpecAviso == InitAviso /\ [][NextAviso]_vars

\* C36: the notification loop ends. Counting from the last external event
\* (that event included), at most one full scan is started and the
\* notifications fired are at most one per operation that was in flight or
\* was started, so only finitely many follow; and the step in which a full
\* scan completes and fires its notification starts no scan: the listener's
\* escanear() returns at once.
C36_BucleTermina ==
    /\ [](retorno[1] <= 1 /\ retorno[2] <= MaxActualizaciones + 2)
    /\ [][evento'.op = "escaneoCompleto" =>
            /\ ~escaneando'
            /\ Len(escaneos') = Len(escaneos) - 1
            /\ retorno'[1] = retorno[1]
            /\ valido']_vars

\* C36 witness: since the last external event one full scan was started and
\* two notifications were fired, the second by the completion of that scan;
\* it started nothing, and a later document of the loop has called
\* escanear() and returned at once on the valid cache.
C36_Testigo ==
    /\ retorno = <<1, 2>>
    /\ evento.op = "escanear"
    /\ evento.inmediato
    /\ valido
    /\ ~escaneando
    /\ escaneos = << >>
    /\ \A f \in Archivos : actualizaciones[f] = 0
    /\ variables # FnVacia

\* ---------------------------------------------------------- debounce, timed
\* One debounced function under calls and the passing of time, in ticks.
\* timeout: the armed timer, <<[args, vence]>> (its argument and the time
\* it is due), or << >> for null. pila: the calls made since the wrapped function last ran,
\* each [args, hora]. retorno: the runs of the wrapped function, each
\* [args, hora, llamadas], llamadas being the number of calls it ended.
\* evento.hora: the clock.
Espera == 2
MaxHora == 7
MaxLlamadas == 3
MaxEjecuciones == 2

Suceso(op, args, hora) ==
    [op |-> op, archivo |-> args, disparos |-> 0, inmediato |-> FALSE,
     validoAntes |-> FALSE, hora |-> hora]

\* The returned closure: clearTimeout of the armed timer, then setTimeout.
debounceTemporizadoSinReinicio(args, hora) ==
    timeout' = IF timeout = << >>
                THEN <<[args |-> args, vence |-> hora + Espera]>>
                ELSE timeout
debounceTemporizado(args, hora) ==
    timeout' = <<[args |-> args, vence |-> hora + Espera]>>

LlamadaDebounced(args) ==
    /\ Len(pila) < MaxLlamadas
    /\ debounceTemporizado(args, evento.hora)
    /\ pila' = Append(pila, [args |-> args, hora |-> evento.hora])
    /\ evento' = Suceso("llamada", args, evento.hora)
    /\ UNCHANGED <<disco, config, cacheVars, escaneando, escaneos,
                   actualizaciones, timeoutsViejos, cacheResolucion, retorno>>

\* The timer callback: funcion(...args), then timeout = null.
TemporizadorVence ==
    /\ timeout # << >>
    /\ timeout[1].vence = evento.hora
    /\ Len(retorno) < MaxEjecuciones
    /\ retorno' = Append(retorno,
                    [args |-> timeout[1].args, hora |-> evento.hora,
                     llamadas |-> Len(pila)])
    /\ timeout' = << >>
    /\ pila' = << >>
    /\ evento' = Suceso("vence", timeout[1].args, evento.hora)
    /\ UNCHANGED <<disco, config, cacheVars, escaneando, escaneos,
                   actualizaciones, timeoutsViejos, cacheResolucion>>

\* Time passes; a due timer runs no later than the tick it is due at.
Tic ==
    /\ evento.hora < MaxHora
    /\ timeout # << >> => evento.hora < timeout[1].vence
    /\ evento' = Suceso("tic", Nulo, evento.hora + 1)
    /\ UNCHANGED <<disco, config, cacheVars, escaneando, escaneos,
                   actualizaciones, timeout, timeoutsViejos, cacheResolucion,
                   pila, retorno>>

InitDebounce ==
    /\ disco = [f \in Archivos |-> 1]
    /\ config = Archivos
    /\ valido = FALSE
    /\ variables = FnVacia
    /\ archivosEscaneados = {}
    /\ variablesPorArchivo = FnVacia
    /\ escaneando = FALSE
    /\ escaneos = << >>
    /\ actualizaciones = [f \in Archivos |-> 0]
    /\ timeout = << >>
    /\ timeoutsViejos = {}
    /\ cacheResolucion = FnVacia
    /\ pila = << >>
    /\ retorno = << >>
    /\ evento = Suceso("inicio", Nulo, 0)

NextDebounce ==
    \/ \E args \in Archivos : LlamadaDebounced(args)
    \/ TemporizadorVence
    \/ Tic

SpecDebounce == InitDebounce /\ [][NextDebounce]_vars

\* Every call of the burst came less than the wait time after the one before.
Rafaga(llamadas) ==
    \A k \in 2..Len(llamadas) :
        llamadas[k].hora - llamadas[k - 1].hora < Espera

\* C37: for a burst of calls, each less than the wait time after the one
\* before, the wrapped function does not run while the burst goes on, and
\* runs once to end it: one wait time after the last call, with the
\* arguments of the last call. While the burst is pending the timer is armed
\* for exactly that run.
C37_UnaEjecucionPorRafaga ==
    /\ []((pila # << >> /\ Rafaga(pila)) =>
            /\ timeout # << >>
            /\ timeout[1].args = pila[Len(pila)].args
            /\ timeout[1].vence = pila[Len(pila)].hora + Espera)
    /\ [][(evento'.op = "vence" /\ Rafaga(pila)) =>
            /\ pila # << >>
            /\ retorno' = Append(retorno,
                    [args |-> pila[Len(pila)].args,
                     hora |-> pila[Len(pila)].hora + Espera,
                     llamadas |-> Len(pila)])
            /\ timeout' = << >>]_vars
    /\ [][Len(retorno') > Len(retorno) => evento'.op = "vence"]_vars

\* C37 witness: a burst of three calls within ticks 0 and 1, the last one for
\* a.css at tick 1, was ended by the one run there has been, for a.css at
\* tick 1 + Espera.
C37_Testigo ==
    /\ evento.op = "vence"
    /\ Len(retorno) = 1
    /\ retorno[1].args = "a.css"
    /\ retorno[1].llamadas = 3
    /\ retorno[1].hora = 1 + Espera
    /\ pila = << >>
    /\ timeout = << >>

\* ------------------------------------------------- ranges of the values
\* The characters of an element of a text; offsets and lengths count them.
Caracteres(e) ==
    CASE e = "root" -> <<"r", "o", "o", "t">>
      [] e = "color" -> <<"c", "o", "l", "o", "r">>
      [] e = "margin" -> <<"m", "a", "r", "g", "i", "n">>
      [] e = "font" -> <<"f", "o", "n", "t">>
      [] e = "size" -> <<"s", "i", "z", "e">>
      [] e = "border" -> <<"b", "o", "r", "d", "e", "r">>
      [] e = "var(" -> <<"v", "a", "r", "(">>
      [] e = "!important" ->
            <<"!", "i", "m", "p", "o", "r", "t", "a", "n", "t">>
      [] e = "/*" -> <<"/", "*">>
      [] e = "*/" -> <<"*", "/">>
      [] OTHER -> <<e>>

Expandir(t) == Aplanar([k \in 1..Len(t) |-> Caracteres(t[k])])

\* String.prototype.length
length(t) == Len(Expandir(t))

\* The offset of element i of t.
OffsetDe(t, i) == length(SubSeq(t, 1, i - 1))

\* String.prototype.indexOf
indexOf(texto, buscado) ==
    LET x == Expandir(texto)
        y == Expandir(buscado)
        c == {o \in 0..(Len(x) - Len(y)) : SubSeq(x, o + 1, o + Len(y)) = y}
    IN  IF c = {} THEN 0 - 1
        ELSE CHOOSE o \in c : \A q \in c : o <= q

Menor(a, b) == IF a < b THEN a ELSE b

\* crearRangoDesdeOffset on a document of one line: positionAt keeps the
\* offset within the text.
crearRangoDesdeOffset(t, offset, longitud) ==
    [inicio |-> Menor(offset, length(t)),
     fin |-> Menor(offset + longitud, length(t))]

\* offsetValor of parsearDeclaraciones.
offsetValor(offsetPropiedad, propiedad, match0, match2) ==
    offsetPropiedad + length(propiedad) + indexOf(match0, match2)

\* parsearDeclaraciones with rangoValor: the exec loop of DECLARATION_REGEX
\* over the content c of a rule of the text t, offsetBase being the offset
\* of c in t.
RECURSIVE RangosDesde(_, _, _, _)
RangosDesde(t, c, i, offsetBase) ==
    LET s == Primero(c, i, LetrasGuion)
        j == PrimeroFuera(c, s, LetrasGuion)
        k == PrimeroFuera(c, j, Espacios)
        m == PrimeroFuera(c, k + 1, Espacios)
        e == Primero(c, k + 1, {";"})
        propiedad == SubSeq(c, s, j - 1)
        match0 == SubSeq(c, s, Menor(e, Len(c)))
        match2 == IF m < e THEN SubSeq(c, m, e - 1) ELSE <<" ">>
        valor == extraerValorLimpio(match2)
        offsetPropiedad == offsetBase + OffsetDe(c, s)
    IN  IF s > Len(c) THEN << >>
        ELSE IF k <= Len(c) /\ c[k] = ":" /\ e > k + 1
            THEN <<[propiedad |-> propiedad,
                    valor |-> valor,
                    rangoValor |-> crearRangoDesdeOffset(t,
                        offsetValor(offsetPropiedad, propiedad, match0, match2),
                        length(valor))]>>
                    \o RangosDesde(t, c, e + 1, offsetBase)
            ELSE RangosDesde(t, c, j, offsetBase)

\* parsearReglas with the offsetBase it hands to parsearDeclaraciones:
\* match.index + match[1].length + 1.
RECURSIVE ReglasConRangos(_, _)
ReglasConRangos(t, i) ==
    LET s == PrimeroFuera(t, i, Llaves)
        p == Primero(t, s, Llaves)
        q == Primero(t, p + 1, Llaves)
    IN  IF p > Len(t) THEN << >>
        ELSE IF t[p] = "}" THEN ReglasConRangos(t, p + 1)
        ELSE IF q > Len(t) THEN << >>
        ELSE IF t[q] = "}"
            THEN RangosDesde(t, SubSeq(t, p + 1, q - 1), 1,
                             OffsetDe(t, s) + length(SubSeq(t, s, p - 1)) + 1)
                    \o ReglasConRangos(t, q + 1)
            ELSE ReglasConRangos(t, p + 1)

\* parsear as far as the hardcoded values of the declarations go: each with
\* the rangoValor of its declaration.
hardcodeadosConRango(texto) ==
    LET decls == ReglasConRangos(eliminarComentarios(texto), 1)
        hard == SelectSeq(decls,
                    LAMBDA d : /\ ~esDefinicionVariable(d.propiedad)
                               /\ deberiVerificarPropiedad(d.propiedad)
                               /\ ~esValorPermitido(d.valor)
                               /\ esValorHardcodeado(d.valor))
    IN  [k \in 1..Len(hard) |->
            [propiedad |-> hard[k].propiedad, valor |-> hard[k].valor,
             rango |-> hard[k].rangoValor]]

\* The documents parsed: one rule with an optional first declaration `a:b;`
\* and a declaration of a checked property, after an optional comment or
\* blank. inicioValor is the offset of the first character of the value of
\* that declaration, as written.
MaxBlancos == 1
Blancos(n) == [k \in 1..n |-> " "]

DocumentoRango(antes, primera, propiedad, b1, b2, valor, despues) ==
    LET cabeza == antes \o <<".", "x", "{">> \o primera \o propiedad
                    \o Blancos(b1) \o <<":">> \o Blancos(b2)
    IN  [texto |-> cabeza \o valor \o despues \o <<"}">>,
         propiedad |-> propiedad,
         valor |-> valor,
         inicioValor |-> length(cabeza)]

DocumentosRango ==
    {DocumentoRango(antes, primera, propiedad, b1, b2, valor, despues) :
        antes \in {<< >>, <<" ">>, <<"/*", "a", "*/">>},
        primera \in {<< >>, <<"a", ":", "b", ";">>},
        propiedad \in {<<"color">>, <<"font", "-", "size">>,
                       <<"border", "-", "color">>},
        b1 \in 0..MaxBlancos,
        b2 \in 0..MaxBlancos,
        valor \in {<<"r", "e", "d">>, Hfff, <<"1", "6", "p", "x">>},
        despues \in {<< >>, <<";">>, <<" ", "!important", ";">>}}

InitRangos ==
    /\ disco = [f \in Archivos |-> 1]
    /\ config = Archivos
    /\ valido = FALSE
    /\ variables = FnVacia
    /\ archivosEscaneados = {}
    /\ variablesPorArchivo = FnVacia
    /\ escaneando = FALSE
    /\ escaneos = << >>
    /\ actualizaciones = [f \in Archivos |-> 0]
    /\ timeout = Nulo
    /\ timeoutsViejos = {}
    /\ cacheResolucion = FnVacia
    /\ pila \in {<<Llamada("parsear", d)>> : d \in DocumentosRango}
    /\ retorno = << >>
    /\ evento = Evento("inicio", Nulo, 0, FALSE)

LlamaParsear ==
    /\ pila # << >>
    /\ Retorna("parsear", hardcodeadosConRango(pila[1].valor.texto))

SpecRangos == InitRangos /\ [][LlamaParsear]_vars

\* C38: every hardcoded value reported for the declaration of a checked
\* property has a range that starts at the offset of the first character of
\* the value in the text of the document and ends after the length of the
\* value.
C38_RangoDelValor ==
    retorno # << >> =>
        \A k \in 1..Len(retorno[1]) :
            (/\ retorno[1][k].propiedad = pila[1].valor.propiedad
             /\ retorno[1][k].valor = pila[1].valor.valor)
            => retorno[1][k].rango =
                    [inicio |-> pila[1].valor.inicioValor,
                     fin |-> pila[1].valor.inicioValor
                                + length(pila[1].valor.valor)]

\* ------------------------------------------------- declarations in comments
\* A full scan of one file, a.css, whose text holds a declaration inside a
\* comment, `/* --name: value; */`, before or after a rule; the rule declares
\* --s, uses --c, or is absent. comentada is the name declared in the
\* comment, fuera the names declared outside comments.
DocumentoComentado(nombre, b1, b2, valor, regla, alFinal) ==
    LET comentario == <<"/*", " ">> \o nombre \o Blancos(b1) \o <<":">>
                        \o Blancos(b2) \o valor \o <<";", " ", "*/">>
    IN  [texto |-> IF alFinal THEN regla.texto \o comentario
                   ELSE comentario \o regla.texto,
         comentada |-> nombre,
         fuera |-> regla.declara]

ReglasFuera ==
    { [texto |-> << >>, declara |-> {}],
      [texto |-> <<":", "root", "{">> \o Ns \o <<":">> \o Hfff \o <<";", "}">>,
       declara |-> {Ns}],
      [texto |-> <<".", "x", "{", "color", ":">> \o VarC \o <<"}">>,
       declara |-> {}] }

DocumentosComentados ==
    {DocumentoComentado(nombre, b1, b2, valor, regla, alFinal) :
        nombre \in {Nc, Ns, Nc1},
        b1 \in 0..MaxBlancos,
        b2 \in 0..MaxBlancos,
        valor \in {H111, Hfff, <<"r", "e", "d">>},
        regla \in ReglasFuera,
        alFinal \in BOOLEAN}

InitComentarios ==
    /\ disco = [f \in Archivos |-> IF f = "a.css" THEN 1 ELSE SinArchivo]
    /\ config = {"a.css"}
    /\ valido = FALSE
    /\ variables = FnVacia
    /\ archivosEscaneados = {}
    /\ variablesPorArchivo = FnVacia
    /\ escaneando = FALSE
    /\ escaneos = << >>
    /\ actualizaciones = [f \in Archivos |-> 0]
    /\ timeout = Nulo
    /\ timeoutsViejos = {}
    /\ cacheResolucion = FnVacia
    /\ pila \in {<<Llamada("escanear", d)>> : d \in DocumentosComentados}
    /\ retorno = << >>
    /\ evento = Evento("inicio", Nulo, 0, FALSE)

\* escanear() on the empty cache, to its end: the file is found, read and
\* processed by procesarArchivo with what parsearDefiniciones returns for
\* its text.
EscaneoDeDocumento ==
    /\ pila # << >>
    /\ ~valido
    /\ LET defs == parsearSoloDefiniciones(pila[1].valor.texto)
           decls == [k \in 1..Len(defs) |->
                        [nombre |-> defs[k].nombre, valor |-> defs[k].valor,
                         archivo |-> "a.css"]]
       IN  /\ variables' = AgregarAlIndice(FnVacia, decls)
           /\ variablesPorArchivo' = ("a.css" :> decls)
    /\ archivosEscaneados' = {"a.css"}
    /\ valido' = TRUE
    /\ onVariablesChange
    /\ evento' = Evento("escaneoCompleto", "a.css", 1, FALSE)
    /\ UNCHANGED <<disco, config, escaneando, escaneos, actualizaciones,
                   timeout, timeoutsViejos, resolverPasoVars>>

SpecComentarios == InitComentarios /\ [][EscaneoDeDocumento]_vars

\* C39: after the scan, a name that the text declares only inside a comment
\* is not in the index.
C39_ComentadaNoRegistrada ==
    (valido /\ pila[1].valor.comentada \notin pila[1].valor.fuera)
        => ~existeVariable(pila[1].valor.comentada)

====
